---- MODULE Spec2Model ----
(***************************************************************************)
(* Performance-adaptive animation coordination of the portfolio site:      *)
(* PerformanceMonitor (FPS sampling, quality tiers, capability detection)  *)
(* and the AnimationManager render loop that drives it.                    *)
(*                                                                         *)
(* Times are performance.now() readings in milliseconds.  The clock is     *)
(* read at whole sample intervals; the frames the browser delivers within  *)
(* one interval are delivered as one burst of calls at the same reading.   *)
(***************************************************************************)
EXTENDS Integers, Sequences, FiniteSets, TLC

\* ------------------------------------------------------------------ bounds
\* The render loop runs for MaxTicks sample intervals; for MaxLoopTicks of
\* them when nothing but the render loop calls the monitor.
MaxTicks == 8
MaxLoopTicks == 12

\* Frame rates of the browser: frames delivered in one sample interval.
FrameRates == {20, 60}

\* The page-lifecycle specification runs for MaxLifecycleTicks sample intervals.
MaxLifecycleTicks == 2

\* The browser's frame rate changes at most MaxRateChanges times.
MaxRateChanges == 1

\* At most MaxCalls direct calls of the monitor's public methods and handlers
\* change the monitor (calls that leave it as it was, and the per-frame
\* updateMetrics calls, are not counted).
MaxCalls == 1

\* The particle arrays hold MaxParticles particles and update() is called at
\* most MaxUpdates times.
MaxParticles == 1

MaxUpdates == 2

\* The content animations are followed for MaxContentTicks clock ticks and
\* the intersection observer reports at most MaxBatches batches.
MaxContentTicks == 8

MaxBatches == 1

\* The navigation enhancer is followed for MaxNavTicks clock ticks and receives
\* at most MaxInteractions pointer events.
MaxNavTicks == 5

MaxInteractions == 2

\* InteractiveElements.update() is called at most MaxHeroUpdates times.
MaxHeroUpdates == 2

\* The pause-and-resume specification runs for MaxPauseTicks sample intervals
\* and delivers at most MaxVisibilityChanges 'visibilitychange' events.
MaxPauseTicks == 9

MaxVisibilityChanges == 2

\* init() is called at most MaxInits times on one manager.
MaxInits == 3

\* ------------------------------------------------------- program constants
SampleIntervalMs == 1000
qualityAdjustmentDelay == 2000
RecentSamples == 5
WarningLimit == 3
maxHistoryLength == 60
InitialFPS == 60
\* performanceThreshold 0.8, kept as a count of tenths
performanceThresholdTenths == 8

MaxTime == MaxTicks * SampleIntervalMs
MaxLoopTime == MaxLoopTicks * SampleIntervalMs
MaxLifecycleTime == MaxLifecycleTicks * SampleIntervalMs

\* JavaScript null: a record no object of the model equals
Null == [null |-> TRUE]

Devices == {"desktop", "tablet", "mobile"}
Tiers == {"high", "medium", "low", "disabled"}
\* values handed to setQuality: the four tiers, an unknown name, and a name
\* every JavaScript object inherits from Object.prototype
QualityArgs == Tiers \cup {"ultra", "constructor"}

targetFPS == [desktop |-> 60, tablet |-> 45, mobile |-> 30]

qualityLevels ==
  [high   |-> [particles |-> 2000, shadows |-> TRUE,  antialias |-> TRUE],
   medium |-> [particles |-> 1000, shadows |-> FALSE, antialias |-> TRUE],
   low    |-> [particles |-> 500,  shadows |-> FALSE, antialias |-> FALSE]]

qualityOrder == <<"high", "medium", "low">>

\* property names the object literal qualityLevels inherits from
\* Object.prototype; each is bound to a function, a truthy value
ObjectPrototypeKeys ==
  {"constructor", "toString", "valueOf", "hasOwnProperty", "isPrototypeOf",
   "propertyIsEnumerable", "toLocaleString"}

\* this.qualityLevels[key]: an own entry, an inherited function, or undefined
QualityLevelOf(key) ==
  IF key \in DOMAIN qualityLevels THEN qualityLevels[key]
  ELSE IF key \in ObjectPrototypeKeys THEN [inherited |-> key]
  ELSE Null

VARIABLES
  now,      \* performance.now()
  pm,       \* the PerformanceMonitor instance, Null when there is none
  am,       \* the AnimationManager instance, Null when the monitor is used alone
  events,   \* window events dispatched by the last operation, in order
  last,     \* name of the last operation
  result,   \* what the last operation returned
  belowRun, \* history: consecutive checks the monitor did not skip (tier neither low nor
            \* disabled), since the last automatic downgrade, whose mean was below
            \* threshold (up to WarningLimit)
  lowRun,   \* history: the same count for the checks made at tier low
  lastAuto, \* history: time of the last automatic downgrade, -1 when none
  rate,     \* environment: frames the browser delivers per sample interval
  changes,  \* environment: number of frame rate changes so far
  calls,    \* environment: number of direct calls that changed the monitor
  page      \* the page object followed on its own (particle system, content animations,
            \* navigation enhancer or interactive elements), Null when none is

vars == <<now, pm, am, events, last, result, belowRun, lowRun, lastAuto, rate, changes, calls, page>>

\* ------------------------------------------------------------ pure helpers
\* Array.prototype.indexOf, 1-based; 0 stands for JavaScript's -1
IndexOf(seq, x) ==
  IF \E i \in 1..Len(seq) : seq[i] = x
  THEN CHOOSE i \in 1..Len(seq) : seq[i] = x /\ \A j \in 1..(i - 1) : seq[j] # x
  ELSE 0

\* Math.round(a / b) for a >= 0, b > 0 (halves round up)
Round(a, b) == (2 * a + b) \div (2 * b)

RECURSIVE Sum(_)
Sum(seq) == IF seq = <<>> THEN 0 ELSE Head(seq) + Sum(Tail(seq))

\* fpsHistory.slice(-5)
Recent(h) == IF Len(h) <= RecentSamples THEN h ELSE SubSeq(h, Len(h) - RecentSamples + 1, Len(h))

\* averageFPS < targetFPS * performanceThreshold, on integers:
\* Sum/5 < target * 8/10
BelowThreshold(h, device) ==
  Sum(Recent(h)) * 10 < Len(Recent(h)) * targetFPS[device] * performanceThresholdTenths

\* ------------------------------------------------------ PerformanceMonitor
\* variant of setInitialQuality that ignores the device type
setInitialQualityAnyDevice(m) ==
  IF ~m.webGLSupported THEN [m EXCEPT !.currentQuality = "disabled"]
  ELSE IF m.reducedMotionPreferred THEN [m EXCEPT !.currentQuality = "disabled"]
  ELSE [m EXCEPT !.currentQuality = "high"]

setInitialQuality(m) ==
  IF ~m.webGLSupported THEN [m EXCEPT !.currentQuality = "disabled"]
  ELSE IF m.reducedMotionPreferred THEN [m EXCEPT !.currentQuality = "disabled"]
  ELSE [m EXCEPT !.currentQuality =
          CASE m.deviceType = "mobile" -> "low"
            [] m.deviceType = "tablet" -> "medium"
            [] OTHER -> "high"]

\* new PerformanceMonitor() at time t on a device with the given capabilities
NewPerformanceMonitor(device, webgl, reduced, t) ==
  setInitialQuality(
    [frameCount |-> 0,
     lastTime |-> t,
     currentFPS |-> InitialFPS,
     fpsHistory |-> <<>>,
     currentQuality |-> "high",
     deviceType |-> device,
     webGLSupported |-> webgl,
     reducedMotionPreferred |-> reduced,
     lastQualityAdjustment |-> 0,
     performanceWarningCount |-> 0,
     dispatched |-> <<>>])

getQualitySettings(m) ==
  IF m.currentQuality = "disabled"
  THEN [particles |-> 0, shadows |-> FALSE, antialias |-> FALSE]
  ELSE IF QualityLevelOf(m.currentQuality) # Null
       THEN QualityLevelOf(m.currentQuality)
       ELSE qualityLevels.low

shouldEnableAnimations(m) ==
  m.webGLSupported /\ ~m.reducedMotionPreferred /\ m.currentQuality # "disabled"

\* variant of getFallbackConfig that tests the reduced-motion preference first
getFallbackConfigMotionFirst(m) ==
  IF m.reducedMotionPreferred
  THEN [type |-> "static", reason |-> "reduced_motion_preferred", enableBasicAnimations |-> FALSE]
  ELSE IF ~m.webGLSupported
       THEN [type |-> "css", reason |-> "webgl_unsupported", enableBasicAnimations |-> TRUE]
       ELSE Null

getFallbackConfig(m) ==
  IF ~m.webGLSupported
  THEN [type |-> "css", reason |-> "webgl_unsupported", enableBasicAnimations |-> TRUE]
  ELSE IF m.reducedMotionPreferred
       THEN [type |-> "static", reason |-> "reduced_motion_preferred",
             enableBasicAnimations |-> FALSE]
       ELSE Null

\* window.dispatchEvent(new CustomEvent('animationQualityChange', ...))
emitQualityChange(m) ==
  [m EXCEPT !.dispatched = Append(@,
     [type |-> "animationQualityChange",
      quality |-> m.currentQuality,
      settings |-> getQualitySettings(m)])]

emitVisibilityChange(m, visible) ==
  [m EXCEPT !.dispatched = Append(@,
     [type |-> "animationVisibilityChange", visible |-> visible])]

reduceQuality(m) ==
  LET currentIndex == IndexOf(qualityOrder, m.currentQuality)
  IN IF currentIndex < Len(qualityOrder)
     THEN emitQualityChange([m EXCEPT !.currentQuality = qualityOrder[currentIndex + 1]])
     ELSE m

\* variant of checkPerformanceThreshold that lowers the tier one warning early
checkPerformanceThresholdEarly(m, t) ==
  IF m.currentQuality = "disabled" \/ m.currentQuality = "low" THEN m
  ELSE IF t - m.lastQualityAdjustment < qualityAdjustmentDelay THEN m
  ELSE IF Len(m.fpsHistory) >= RecentSamples
       THEN IF BelowThreshold(m.fpsHistory, m.deviceType)
            THEN LET w == [m EXCEPT !.performanceWarningCount = @ + 1]
                 IN IF w.performanceWarningCount >= WarningLimit - 1
                    THEN [reduceQuality(w) EXCEPT !.performanceWarningCount = 0,
                                                  !.lastQualityAdjustment = t]
                    ELSE w
            ELSE [m EXCEPT !.performanceWarningCount = 0]
       ELSE m

\* variant of checkPerformanceThreshold without the cool-down after an adjustment
checkPerformanceThresholdNoDelay(m, t) ==
  IF m.currentQuality = "disabled" \/ m.currentQuality = "low" THEN m
  ELSE IF Len(m.fpsHistory) >= RecentSamples
       THEN IF BelowThreshold(m.fpsHistory, m.deviceType)
            THEN LET w == [m EXCEPT !.performanceWarningCount = @ + 1]
                 IN IF w.performanceWarningCount >= WarningLimit
                    THEN [reduceQuality(w) EXCEPT !.performanceWarningCount = 0,
                                                  !.lastQualityAdjustment = t]
                    ELSE w
            ELSE [m EXCEPT !.performanceWarningCount = 0]
       ELSE m

\* variant of checkPerformanceThreshold that restores the tier above when the
\* mean is back at or above the threshold
checkPerformanceThresholdRestoring(m, t) ==
  IF m.currentQuality = "disabled" \/ m.currentQuality = "low" THEN m
  ELSE IF t - m.lastQualityAdjustment < qualityAdjustmentDelay THEN m
  ELSE IF Len(m.fpsHistory) >= RecentSamples
       THEN IF BelowThreshold(m.fpsHistory, m.deviceType)
            THEN LET w == [m EXCEPT !.performanceWarningCount = @ + 1]
                 IN IF w.performanceWarningCount >= WarningLimit
                    THEN [reduceQuality(w) EXCEPT !.performanceWarningCount = 0,
                                                  !.lastQualityAdjustment = t]
                    ELSE w
            ELSE LET currentIndex == IndexOf(qualityOrder, m.currentQuality)
                 IN IF currentIndex > 1
                    THEN emitQualityChange(
                           [m EXCEPT !.currentQuality = qualityOrder[currentIndex - 1],
                                     !.performanceWarningCount = 0,
                                     !.lastQualityAdjustment = t])
                    ELSE [m EXCEPT !.performanceWarningCount = 0]
       ELSE m

\* variant of checkPerformanceThreshold that keeps counting at tier low
checkPerformanceThresholdAtLow(m, t) ==
  IF m.currentQuality = "disabled" THEN m
  ELSE IF t - m.lastQualityAdjustment < qualityAdjustmentDelay THEN m
  ELSE IF Len(m.fpsHistory) >= RecentSamples
       THEN IF BelowThreshold(m.fpsHistory, m.deviceType)
            THEN LET w == [m EXCEPT !.performanceWarningCount = @ + 1]
                 IN IF w.performanceWarningCount >= WarningLimit
                    THEN [reduceQuality(w) EXCEPT !.performanceWarningCount = 0,
                                                  !.lastQualityAdjustment = t]
                    ELSE w
            ELSE [m EXCEPT !.performanceWarningCount = 0]
       ELSE m

checkPerformanceThreshold(m, t) ==
  IF m.currentQuality = "disabled" \/ m.currentQuality = "low" THEN m
  ELSE IF t - m.lastQualityAdjustment < qualityAdjustmentDelay THEN m
  ELSE IF Len(m.fpsHistory) >= RecentSamples
       THEN IF BelowThreshold(m.fpsHistory, m.deviceType)
            THEN LET w == [m EXCEPT !.performanceWarningCount = @ + 1]
                 IN IF w.performanceWarningCount >= WarningLimit
                    THEN [reduceQuality(w) EXCEPT !.performanceWarningCount = 0,
                                                  !.lastQualityAdjustment = t]
                    ELSE w
            ELSE [m EXCEPT !.performanceWarningCount = 0]
       ELSE m

\* the once-a-second branch of updateMetrics, up to the call of
\* checkPerformanceThreshold: the sample is computed and stored
takeSample(m, t) ==
  LET fps == Round((m.frameCount + 1) * 1000, t - m.lastTime)
      h == Append(m.fpsHistory, fps)
  IN [m EXCEPT !.currentFPS = fps,
               !.frameCount = 0,
               !.lastTime = t,
               !.fpsHistory = IF Len(h) > maxHistoryLength THEN Tail(h) ELSE h]

updateMetrics(m, t) ==
  IF t - m.lastTime >= SampleIntervalMs
  THEN checkPerformanceThreshold(takeSample(m, t), t)
  ELSE [m EXCEPT !.frameCount = @ + 1]

\* k >= 1 calls of updateMetrics() at the same clock reading t.  After the
\* first call t - lastTime < 1000 (the sample was just taken, or it was not
\* yet due), so each later call takes the branch that only counts the frame.
updateMetricsTimes(m, t, k) ==
  LET first == updateMetrics(m, t)
  IN [first EXCEPT !.frameCount = @ + (k - 1)]

\* variant of setQuality that dispatches the event before it assigns the tier
setQualityEmitFirst(m, quality) ==
  IF quality = "disabled" \/ QualityLevelOf(quality) # Null
  THEN [emitQualityChange(m) EXCEPT !.currentQuality = quality]
  ELSE m

setQuality(m, quality) ==
  IF quality = "disabled" \/ QualityLevelOf(quality) # Null
  THEN emitQualityChange([m EXCEPT !.currentQuality = quality])
  ELSE m

\* variant of onReducedMotionChange that records the preference and keeps the tier
onReducedMotionChangeKeepTier(m, matches) ==
  LET r == [m EXCEPT !.reducedMotionPreferred = matches]
  IN emitQualityChange(IF matches THEN r ELSE setInitialQuality(r))

onReducedMotionChange(m, matches) ==
  LET r == [m EXCEPT !.reducedMotionPreferred = matches]
  IN emitQualityChange(
       IF matches THEN [r EXCEPT !.currentQuality = "disabled"]
       ELSE setInitialQuality(r))

onVisibilityChange(m, isHidden) ==
  IF isHidden THEN emitVisibilityChange(m, FALSE) ELSE emitVisibilityChange(m, TRUE)

\* ---------------------------------------------------------------- history
\* What a call of checkPerformanceThreshold finds in monitor m: too few
\* samples, a mean below the threshold, or a mean at or above it.
CheckKind(m) ==
  IF Len(m.fpsHistory) < RecentSamples THEN "few"
  ELSE IF BelowThreshold(m.fpsHistory, m.deviceType) THEN "below"
  ELSE "good"

RunAfter(kind, run) ==
  IF kind = "below" THEN (IF run < WarningLimit THEN run + 1 ELSE run) ELSE 0

\* ---------------------------------------------------------------- actions
Init ==
  /\ now = 0
  /\ \E device \in Devices, webgl \in BOOLEAN, reduced \in BOOLEAN :
       pm = NewPerformanceMonitor(device, webgl, reduced, 0)
  /\ am = Null
  /\ events = <<>>
  /\ last = "construct"
  /\ result = "undefined"
  /\ belowRun = 0
  /\ lowRun = 0
  /\ lastAuto = -1
  /\ rate \in FrameRates
  /\ changes = 0
  /\ calls = 0
  /\ page = Null

\* the load of the page changes: the browser delivers frames at another rate
RateChange(k) ==
  /\ changes < MaxRateChanges
  /\ k # rate
  /\ rate' = k
  /\ changes' = changes + 1
  /\ UNCHANGED <<now, pm, am, events, last, result, belowRun, lowRun, lastAuto, calls, page>>

\* An operation on the monitor, called at clock reading now, ends: `after`
\* is the monitor it leaves and `checked` the monitor as its call of
\* checkPerformanceThreshold found it (Null when it made no such call).
Finish(name, checked, after) ==
  LET auto == checked # Null /\ after.currentQuality # checked.currentQuality
  IN /\ pm' = [after EXCEPT !.dispatched = <<>>]
     /\ events' = after.dispatched
     /\ last' = name
     /\ result' = "undefined"
     /\ belowRun' = IF auto THEN 0
                    ELSE IF checked # Null /\ checked.currentQuality \notin {"low", "disabled"}
                         THEN RunAfter(CheckKind(checked), belowRun)
                         ELSE belowRun
     /\ lowRun' = IF checked # Null /\ checked.currentQuality = "low"
                  THEN RunAfter(CheckKind(checked), lowRun)
                  ELSE IF after.currentQuality = "low" /\ pm.currentQuality = "low"
                       THEN lowRun ELSE 0
     /\ lastAuto' = IF auto THEN now ELSE lastAuto

\* a direct call from outside the render loop
Call(name, checked, after) ==
  /\ Finish(name, checked, after)
  /\ IF [after EXCEPT !.dispatched = <<>>] = pm
     THEN calls' = calls
     ELSE calls < MaxCalls /\ calls' = calls + 1
  /\ UNCHANGED <<now, am, rate, changes, page>>

\* One sample interval of the render loop: the browser delivers `rate` frames,
\* each calling updateMetrics() at the clock reading now, and the interval ends.
Frames(limit) ==
  /\ now + SampleIntervalMs <= limit
  /\ Finish("updateMetrics",
            IF now - pm.lastTime >= SampleIntervalMs THEN takeSample(pm, now) ELSE Null,
            updateMetricsTimes(pm, now, rate))
  /\ now' = now + SampleIntervalMs
  /\ UNCHANGED <<am, rate, changes, calls, page>>

UpdateMetrics == Frames(MaxTime)

CheckPerformanceThreshold ==
  Call("checkPerformanceThreshold", pm, checkPerformanceThreshold(pm, now))

ReduceQuality ==
  Call("reduceQuality", Null, reduceQuality(pm))

SetQuality(q) ==
  Call("setQuality", Null, setQuality(pm, q))

OnReducedMotionChange(matches) ==
  Call("onReducedMotionChange", Null, onReducedMotionChange(pm, matches))

OnVisibilityChange(isHidden) ==
  Call("onVisibilityChange", Null, onVisibilityChange(pm, isHidden))

Next ==
  \/ \E k \in FrameRates : RateChange(k)
  \/ UpdateMetrics
  \/ CheckPerformanceThreshold
  \/ ReduceQuality
  \/ \E q \in QualityArgs : SetQuality(q)
  \/ \E matches \in BOOLEAN : OnReducedMotionChange(matches)
  \/ \E isHidden \in BOOLEAN : OnVisibilityChange(isHidden)

Spec == Init /\ [][Next]_vars

\* The monitor as the render loop alone drives it: no other caller, no
\* notification from the browser.
LoopUpdateMetrics == Frames(MaxLoopTime)

LoopRateChange == \E k \in FrameRates : RateChange(k)

NextLoop ==
  \/ LoopRateChange
  \/ LoopUpdateMetrics

SpecLoop == Init /\ [][NextLoop]_vars

\* ------------------------------------------------------- AnimationManager
\* the methods class ParticleSystem defines
ParticleSystemMethods ==
  {"getDeviceConfig", "init", "createParticleData", "createGeometry", "createMaterial",
   "createPoints", "addToScene", "addEventListeners", "update", "getParticleCount",
   "getColorPalette", "isColorInPalette", "getParticlePositions", "dispose"}

\* ParticleSystem.getDeviceConfig(deviceType).particleCount
getDeviceConfig == [desktop |-> 2000, tablet |-> 1000, mobile |-> 500]

\* new ParticleSystem(scene, deviceType)
NewParticleSystem(device) == [deviceType |-> device, particleCount |-> getDeviceConfig[device]]

\* ParticleSystem.getParticleCount()
getParticleCount(ps) == ps.particleCount

\* new AnimationManager(): scene, camera and renderer are TRUE when set, the
\* animationId is TRUE when it holds a request id, listeners counts the pairs
\* of window listeners init() has added, resizeListener tells whether resize
\* is registered on window.  The browser's queue of frame callbacks is kept
\* with the manager: requested is TRUE when the callback of the request that
\* animationId names is outstanding, orphaned counts the outstanding
\* callbacks of requests whose id the manager no longer holds.
NewAnimationManager(device, t) ==
  [scene |-> FALSE,
   camera |-> FALSE,
   renderer |-> FALSE,
   isInitialized |-> FALSE,
   isRunning |-> FALSE,
   animationId |-> FALSE,
   requested |-> FALSE,
   orphaned |-> 0,
   particleSystem |-> Null,
   interactiveElements |-> Null,
   contentAnimations |-> Null,
   lastTime |-> t,
   deviceType |-> device,
   resizeListener |-> FALSE,
   listeners |-> 0]

\* new InteractiveElements(scene, camera, deviceType)
NewInteractiveElements(device) == [deviceType |-> device]

\* new ContentAnimations({staggerDelay, revealThreshold}) and its init()
NewContentAnimations(device) == [staggerDelay |-> IF device = "mobile" THEN 150 ELSE 100]

\* this.animationId = requestAnimationFrame(this.animate)
requestAnimationFrame(a) ==
  [a EXCEPT !.orphaned = IF a.requested THEN @ + 1 ELSE @,
            !.requested = TRUE,
            !.animationId = TRUE]

\* the browser takes an outstanding callback off its queue to run it
takeCallback(a) ==
  IF a.requested THEN [a EXCEPT !.requested = FALSE]
  ELSE [a EXCEPT !.orphaned = @ - 1]

\* the 'animationQualityChange' listener of setupPerformanceListeners: it
\* hands the settings to particleSystem.updateQuality when that method exists
onAnimationQualityChange(a, detail) ==
  IF a.particleSystem # Null /\ "updateQuality" \in ParticleSystemMethods
  THEN [a EXCEPT !.particleSystem.particleCount = detail.settings.particles]
  ELSE a

\* window delivers the quality events of evs to the manager's listeners
RECURSIVE DeliverQuality(_, _)
DeliverQuality(a, evs) ==
  IF evs = <<>> \/ a.listeners = 0 THEN a
  ELSE DeliverQuality(
         IF Head(evs).type = "animationQualityChange"
         THEN onAnimationQualityChange(a, Head(evs))
         ELSE a,
         Tail(evs))

\* animate() at time t: requests the next frame, updates the monitor, renders
animate(a, m, t) ==
  IF ~a.isRunning THEN [a |-> a, m |-> m]
  ELSE LET after == updateMetrics([m EXCEPT !.dispatched = <<>>], t)
       IN [a |-> DeliverQuality(requestAnimationFrame(a), after.dispatched),
           m |-> [after EXCEPT !.dispatched = m.dispatched \o @]]

\* what a frame callback ends with: render() needs renderer, scene and camera
animateResult(a) ==
  IF a.isRunning /\ ~(a.renderer /\ a.scene /\ a.camera) THEN "throws" ELSE "undefined"

\* the deltaTime a frame callback at clock reading t hands to the particle
\* system and the interactive elements, in milliseconds (the code divides by
\* 1000): animate() reads this.lastTime, which only updatePerformanceMetrics
\* assigns, and animate() calls that only on a manager without a monitor
animateDeltaTime(a, m, t) ==
  IF m = Null THEN 0 ELSE t - a.lastTime

\* k >= 1 frame callbacks at the same clock reading t, each requested by the
\* one before: after the first, updateMetrics only counts the frame
animateTimes(a, m, t, k) ==
  LET first == animate(takeCallback(a), m, t)
  IN [a |-> first.a,
      m |-> IF first.a.isRunning
            THEN [first.m EXCEPT !.frameCount = @ + (k - 1)]
            ELSE first.m]

\* variant of start that does not look at isInitialized
startUninitialized(a, m, t) ==
  IF a.isRunning THEN [a |-> a, m |-> m]
  ELSE IF m = Null THEN [a |-> requestAnimationFrame([a EXCEPT !.isRunning = TRUE]), m |-> m]
  ELSE animate([a EXCEPT !.isRunning = TRUE], m, t)

\* variant of start that does not look at isRunning
startAgain(a, m, t) ==
  IF ~a.isInitialized THEN [a |-> a, m |-> m]
  ELSE animate([a EXCEPT !.isRunning = TRUE], m, t)

start(a, m, t) ==
  IF ~a.isInitialized THEN [a |-> a, m |-> m]
  ELSE IF a.isRunning THEN [a |-> a, m |-> m]
  ELSE animate([a EXCEPT !.isRunning = TRUE], m, t)

\* stop(): cancelAnimationFrame takes the callback of the held request off
\* the browser's queue
stop(a) ==
  IF a.animationId
  THEN [a EXCEPT !.requested = FALSE, !.animationId = FALSE, !.isRunning = FALSE]
  ELSE [a EXCEPT !.isRunning = FALSE]

\* what start() returns
startResult(a) == IF a.isInitialized THEN "true" ELSE "false"

\* variant of the 'animationVisibilityChange' listener that ignores a hidden page
onAnimationVisibilityChangeNoPause(a, m, detail, t) ==
  IF detail.visible /\ ~a.isRunning /\ a.isInitialized
  THEN animate([a EXCEPT !.isRunning = TRUE], m, t)
  ELSE [a |-> a, m |-> m]

\* the 'animationVisibilityChange' listener of setupPerformanceListeners
onAnimationVisibilityChange(a, m, detail, t) ==
  IF detail.visible
  THEN IF ~a.isRunning THEN start(a, m, t) ELSE [a |-> a, m |-> m]
  ELSE IF a.isRunning THEN [a |-> stop(a), m |-> m] ELSE [a |-> a, m |-> m]

\* the constructors init() calls: ok[c] tells whether the constructor of c
\* returns (TRUE) or throws (FALSE)
Constructors == {"renderer", "particleSystem", "interactiveElements", "contentAnimations"}

\* The outcomes of the constructors that make a difference: when the renderer
\* throws the later constructors are not called, and when the monitor disables
\* animations none is.
AllOk == [c \in Constructors |-> TRUE]

InitOutcomes == {ok \in [Constructors -> BOOLEAN] : ok["renderer"] \/ ok = [AllOk EXCEPT !["renderer"] = FALSE]}

Outcomes(webgl, reduced) == IF webgl /\ ~reduced THEN InitOutcomes ELSE {AllOk}

\* variant of init in which a throwing component constructor ends init() the
\* way a throwing renderer constructor does
initAllOrNothing(a, m, ok) ==
  IF ~shouldEnableAnimations(m) THEN a
  ELSE IF ~ok["renderer"] THEN [a EXCEPT !.scene = TRUE, !.camera = TRUE]
  ELSE IF ok # AllOk
       THEN [a EXCEPT !.scene = TRUE, !.camera = TRUE, !.renderer = TRUE,
                      !.resizeListener = TRUE]
       ELSE [a EXCEPT !.scene = TRUE,
                      !.camera = TRUE,
                      !.renderer = TRUE,
                      !.resizeListener = TRUE,
                      !.particleSystem = NewParticleSystem(a.deviceType),
                      !.interactiveElements = NewInteractiveElements(a.deviceType),
                      !.contentAnimations = NewContentAnimations(a.deviceType),
                      !.listeners = @ + 1,
                      !.isInitialized = TRUE]

\* init() with the monitor m it has just constructed.  An assignment whose
\* constructor throws is not made: the field keeps the value it had.
init(a, m, ok) ==
  IF ~shouldEnableAnimations(m) THEN a
  ELSE IF ~ok["renderer"] THEN [a EXCEPT !.scene = TRUE, !.camera = TRUE]
  ELSE [a EXCEPT !.scene = TRUE,
                 !.camera = TRUE,
                 !.renderer = TRUE,
                 !.resizeListener = TRUE,
                 !.particleSystem =
                    IF ok["particleSystem"] THEN NewParticleSystem(a.deviceType) ELSE @,
                 !.interactiveElements =
                    IF ok["interactiveElements"] THEN NewInteractiveElements(a.deviceType) ELSE @,
                 !.contentAnimations =
                    IF ok["contentAnimations"] THEN NewContentAnimations(a.deviceType) ELSE @,
                 !.listeners = @ + 1,
                 !.isInitialized = TRUE]

\* what init() returns
initResult(m, ok) == IF shouldEnableAnimations(m) /\ ok["renderer"] THEN "true" ELSE "false"

\* variant of dispose that leaves the loop as it is
disposeRunning(a) ==
  [a EXCEPT !.particleSystem = Null,
            !.interactiveElements = Null,
            !.contentAnimations = Null,
            !.resizeListener = FALSE,
            !.scene = FALSE,
            !.camera = FALSE,
            !.renderer = FALSE,
            !.isInitialized = FALSE]

dispose(a) ==
  [stop(a) EXCEPT !.particleSystem = Null,
                  !.interactiveElements = Null,
                  !.contentAnimations = Null,
                  !.resizeListener = FALSE,
                  !.scene = FALSE,
                  !.camera = FALSE,
                  !.renderer = FALSE,
                  !.isInitialized = FALSE]

\* ------------------------------------------------- actions of the manager
InitManager ==
  /\ now = 0
  /\ pm = Null
  /\ \E device \in Devices : am = NewAnimationManager(device, 0)
  /\ events = <<>>
  /\ last = "construct"
  /\ result = "undefined"
  /\ belowRun = 0
  /\ lowRun = 0
  /\ lastAuto = -1
  /\ rate \in FrameRates
  /\ changes = 0
  /\ calls = 0
  /\ page = Null

\* an operation of the manager or an event leaves manager a and monitor m;
\* the ones that change either are counted
Step(name, a, m, counted, ret) ==
  /\ am' = a
  /\ result' = ret
  /\ pm' = IF m = Null THEN Null ELSE [m EXCEPT !.dispatched = <<>>]
  /\ events' = IF m = Null THEN <<>> ELSE m.dispatched
  /\ last' = name
  /\ IF counted /\ (am' # am \/ pm' # pm)
     THEN calls < MaxCalls /\ calls' = calls + 1
     ELSE calls' = calls
  /\ UNCHANGED <<belowRun, lowRun, lastAuto, rate, changes, page>>

\* animationManager.init() in a browser with or without WebGL and with or
\* without the reduced-motion preference
AmInit ==
  /\ pm = Null
  /\ \E webgl \in BOOLEAN, reduced \in BOOLEAN, psOk \in BOOLEAN :
       LET m == NewPerformanceMonitor(am.deviceType, webgl, reduced, now)
           ok == [c \in Constructors |-> IF c = "particleSystem" THEN psOk ELSE TRUE]
       IN Step("init", init(am, m, ok), m, FALSE, initResult(m, ok))
  /\ now' = now

AmStart ==
  /\ pm # Null
  /\ LET r == start(am, pm, now) IN Step("start", r.a, r.m, FALSE, startResult(am))
  /\ now' = now

AmStop ==
  /\ Step("stop", stop(am), pm, TRUE, "undefined")
  /\ now' = now

\* the browser runs the requested frame callbacks of one sample interval
AmFrames ==
  /\ am.requested \/ am.orphaned > 0
  /\ now + SampleIntervalMs <= MaxTime
  /\ LET r == animateTimes(am, pm, now, rate)
     IN Step("animate", r.a, r.m, FALSE, animateResult(r.a))
  /\ now' = now + SampleIntervalMs

\* a sample interval goes by with no frame requested (readings are counted
\* from the construction of the first monitor)
AmIdle ==
  /\ pm # Null
  /\ ~am.requested /\ am.orphaned = 0
  /\ now + SampleIntervalMs <= MaxTime
  /\ now' = now + SampleIntervalMs
  /\ last' = "idle"
  /\ result' = "undefined"
  /\ events' = <<>>
  /\ UNCHANGED <<pm, am, belowRun, lowRun, lastAuto, rate, changes, calls, page>>

\* document 'visibilitychange': the monitor's handler dispatches the event the
\* manager's listener starts or stops the loop on
AmVisibilityChange(isHidden) ==
  /\ pm # Null
  /\ LET m == onVisibilityChange(pm, isHidden)
         r == IF am.listeners > 0
              THEN onAnimationVisibilityChange(am, m, m.dispatched[1], now)
              ELSE [a |-> am, m |-> m]
     IN Step("onVisibilityChange", r.a, r.m, TRUE, "undefined")
  /\ now' = now

\* the media query 'change' event
AmReducedMotionChange(matches) ==
  /\ pm # Null
  /\ LET m == onReducedMotionChange(pm, matches)
     IN Step("onReducedMotionChange", DeliverQuality(am, m.dispatched), m, TRUE, "undefined")
  /\ now' = now

\* animationManager.performanceMonitor.setQuality(q)
AmSetQuality(q) ==
  /\ pm # Null
  /\ LET m == setQuality(pm, q)
     IN Step("setQuality", DeliverQuality(am, m.dispatched), m, TRUE, "undefined")
  /\ now' = now

AmDispose ==
  /\ Step("dispose", dispose(am), Null, TRUE, "undefined")
  /\ now' = now

\* the frame rate of a session of the manager is the one it began with
NextManager ==
  \/ AmInit
  \/ AmStart
  \/ AmStop
  \/ AmFrames
  \/ AmIdle
  \/ \E isHidden \in BOOLEAN : AmVisibilityChange(isHidden)
  \/ \E matches \in BOOLEAN : AmReducedMotionChange(matches)
  \/ \E q \in QualityArgs : AmSetQuality(q)
  \/ AmDispose

SpecManager == InitManager /\ [][NextManager]_vars

\* ------------------------------------------------------------ page lifecycle
\* variant of initAnimations that returns the manager whatever init() returned
initAnimationsAnyInit(device, webgl, reduced, t, thrown, ok) ==
  LET performanceMonitor == NewPerformanceMonitor(device, webgl, reduced, t)
  IN IF ~shouldEnableAnimations(performanceMonitor)
     THEN [a |-> Null, m |-> Null,
           ret |-> IF getFallbackConfig(performanceMonitor) = Null THEN "throws" ELSE "null"]
     ELSE IF thrown = "constructor" THEN [a |-> Null, m |-> Null, ret |-> "null"]
     ELSE LET animationManager == NewAnimationManager(device, t)
              m == NewPerformanceMonitor(device, webgl, reduced, t)
              started == start(init(animationManager, m, ok), m, t)
          IN [a |-> started.a, m |-> started.m,
              ret |-> IF thrown = "render" /\ initResult(m, ok) = "true"
                      THEN "null" ELSE "manager"]

\* initAnimations() at time t on a device with the given capabilities.
\* thrown names the call of the try block that throws besides the
\* constructors init() guards itself: the AnimationManager constructor, the
\* first render inside start(), or none.  The result holds the manager and
\* monitor left behind (Null when none was constructed) and what is returned.
initAnimations(device, webgl, reduced, t, thrown, ok) ==
  LET performanceMonitor == NewPerformanceMonitor(device, webgl, reduced, t)
  IN IF ~shouldEnableAnimations(performanceMonitor)
     THEN [a |-> Null, m |-> Null,
           ret |-> IF getFallbackConfig(performanceMonitor) = Null THEN "throws" ELSE "null"]
     ELSE IF thrown = "constructor" THEN [a |-> Null, m |-> Null, ret |-> "null"]
     ELSE LET animationManager == NewAnimationManager(device, t)
              m == NewPerformanceMonitor(device, webgl, reduced, t)
          IN IF initResult(m, ok) = "true"
             THEN LET started == start(init(animationManager, m, ok), m, t)
                  IN [a |-> started.a, m |-> started.m,
                      ret |-> IF thrown = "render" THEN "null" ELSE "manager"]
             ELSE [a |-> init(animationManager, m, ok), m |-> m, ret |-> "null"]

\* resize(): returns at once unless initialized; it then uses the camera and
\* the renderer
resize(a) == a

resizeResult(a) ==
  IF a.isInitialized /\ ~(a.camera /\ a.renderer) THEN "throws" ELSE "undefined"

\* the page is loaded and no animation object exists yet
InitLifecycle ==
  /\ now = 0
  /\ pm = Null
  /\ am = Null
  /\ events = <<>>
  /\ last = "load"
  /\ result = "undefined"
  /\ belowRun = 0
  /\ lowRun = 0
  /\ lastAuto = -1
  /\ rate \in FrameRates
  /\ changes = 0
  /\ calls = 0
  /\ page = Null

InitAnimations ==
  /\ am = Null
  /\ \E device \in Devices, webgl \in BOOLEAN, reduced \in BOOLEAN,
        thrown \in {"none", "constructor", "render"} :
     \E ok \in Outcomes(webgl, reduced) :
       LET r == initAnimations(device, webgl, reduced, now, thrown, ok)
       IN Step("initAnimations", r.a, r.m, FALSE, r.ret)
  /\ now' = now

\* new AnimationManager() by the page itself
LcConstruct ==
  /\ am = Null
  /\ \E device \in Devices :
       Step("construct", NewAnimationManager(device, now), Null, FALSE, "undefined")
  /\ now' = now

\* animationManager.init(), the first or a later one
LcInit ==
  /\ am # Null
  /\ \E webgl \in BOOLEAN, reduced \in BOOLEAN :
     \E ok \in Outcomes(webgl, reduced) :
       LET m == NewPerformanceMonitor(am.deviceType, webgl, reduced, now)
       IN Step("init", init(am, m, ok), m, pm # Null, initResult(m, ok))
  /\ now' = now

LcStart ==
  /\ am # Null
  /\ LET r == start(am, pm, now) IN Step("start", r.a, r.m, FALSE, startResult(am))
  /\ now' = now

LcStop == am # Null /\ AmStop

LcFrames ==
  /\ am # Null
  /\ now + SampleIntervalMs <= MaxLifecycleTime
  /\ AmFrames

LcIdle ==
  /\ am # Null
  /\ now + SampleIntervalMs <= MaxLifecycleTime
  /\ AmIdle

LcVisibilityChange(isHidden) == am # Null /\ AmVisibilityChange(isHidden)

\* an 'animationVisibilityChange' event dispatched on window by another
\* object of the page, for instance another PerformanceMonitor
LcWindowVisibility(visible) ==
  /\ am # Null
  /\ am.listeners > 0
  /\ LET r == onAnimationVisibilityChange(am, pm, [visible |-> visible], now)
     IN Step("animationVisibilityChange", r.a, r.m, TRUE, "undefined")
  /\ now' = now

\* the window 'resize' event
LcResize ==
  /\ am # Null
  /\ am.resizeListener
  /\ Step("resize", resize(am), pm, FALSE, resizeResult(am))
  /\ now' = now

LcDispose == am # Null /\ AmDispose

NextLifecycle ==
  \/ InitAnimations
  \/ LcConstruct
  \/ LcInit
  \/ LcStart
  \/ LcStop
  \/ LcFrames
  \/ LcIdle
  \/ \E isHidden \in BOOLEAN : LcVisibilityChange(isHidden)
  \/ \E visible \in BOOLEAN : LcWindowVisibility(visible)
  \/ LcResize
  \/ LcDispose

SpecLifecycle == InitLifecycle /\ [][NextLifecycle]_vars

\* ------------------------------------------------------ canvas in the document
\* The canvases the manager has appended to document.body and that are still
\* attached are counted in page.attached.  init() of a manager without a
\* canvas option appends the canvas of the renderer it has just created.
appendCanvas(doc, m, ok) ==
  IF shouldEnableAnimations(m) /\ ok["renderer"]
  THEN [doc EXCEPT !.attached = @ + 1]
  ELSE doc

\* dispose() removes the canvas of the renderer the manager holds
removeCanvas(doc, a) ==
  IF a.renderer /\ doc.attached > 0 THEN [doc EXCEPT !.attached = @ - 1] ELSE doc

InitCanvas ==
  /\ now = 0
  /\ pm = Null
  /\ \E device \in Devices : am = NewAnimationManager(device, 0)
  /\ events = <<>>
  /\ last = "construct"
  /\ result = "undefined"
  /\ belowRun = 0
  /\ lowRun = 0
  /\ lastAuto = -1
  /\ rate = InitialFPS
  /\ changes = 0
  /\ calls = 0
  /\ page = [attached |-> 0]

\* animationManager.init(), the first or a later one
CvInit ==
  /\ calls < MaxInits
  /\ \E webgl \in BOOLEAN, reduced \in BOOLEAN :
     \E ok \in Outcomes(webgl, reduced) :
       LET m == NewPerformanceMonitor(am.deviceType, webgl, reduced, now)
       IN /\ am' = init(am, m, ok)
          /\ pm' = [m EXCEPT !.dispatched = <<>>]
          /\ events' = m.dispatched
          /\ result' = initResult(m, ok)
          /\ page' = appendCanvas(page, m, ok)
  /\ last' = "init"
  /\ calls' = calls + 1
  /\ UNCHANGED <<now, belowRun, lowRun, lastAuto, rate, changes>>

\* animationManager.dispose()
CvDispose ==
  /\ last # "dispose"
  /\ am' = dispose(am)
  /\ pm' = Null
  /\ events' = <<>>
  /\ result' = "undefined"
  /\ page' = removeCanvas(page, am)
  /\ last' = "dispose"
  /\ UNCHANGED <<now, belowRun, lowRun, lastAuto, rate, changes, calls>>

NextCanvas ==
  \/ CvInit
  \/ CvDispose

SpecCanvas == InitCanvas /\ [][NextCanvas]_vars

\* ----------------------------------------------------- pause and resume
\* initAnimations() has returned a running manager on a device with WebGL and
\* without the reduced-motion preference; from then on only the browser
\* acts: it runs frame callbacks, and the page is hidden and shown again.
\* frame rates at or above 80% of the desktop target
PauseRates == {50, 60}

MaxPauseTime == MaxPauseTicks * SampleIntervalMs

InitPause ==
  /\ now = 0
  /\ \E device \in Devices :
       LET r == initAnimations(device, TRUE, FALSE, 0, "none", AllOk)
       IN /\ am = r.a
          /\ pm = [r.m EXCEPT !.dispatched = <<>>]
          /\ events = r.m.dispatched
  /\ last = "initAnimations"
  /\ result = "manager"
  /\ belowRun = 0
  /\ lowRun = 0
  /\ lastAuto = -1
  /\ rate \in PauseRates
  /\ changes = 0
  /\ calls = 0
  /\ page = Null

\* the browser runs the requested frame callbacks of one sample interval
PaFrames ==
  /\ am.requested \/ am.orphaned > 0
  /\ now + SampleIntervalMs <= MaxPauseTime
  /\ LET r == animateTimes(am, pm, now, rate)
     IN Step("animate", r.a, r.m, FALSE, animateResult(r.a))
  /\ now' = now + SampleIntervalMs

\* a sample interval goes by while the page is hidden
PaIdle ==
  /\ ~am.requested /\ am.orphaned = 0
  /\ now + SampleIntervalMs <= MaxPauseTime
  /\ now' = now + SampleIntervalMs
  /\ last' = "idle"
  /\ result' = "undefined"
  /\ events' = <<>>
  /\ UNCHANGED <<pm, am, belowRun, lowRun, lastAuto, rate, changes, calls, page>>

\* document 'visibilitychange'
PaVisibilityChange(isHidden) ==
  /\ calls < MaxVisibilityChanges
  /\ LET m == onVisibilityChange(pm, isHidden)
         r == onAnimationVisibilityChange(am, m, m.dispatched[1], now)
     IN /\ am' = r.a
        /\ pm' = [r.m EXCEPT !.dispatched = <<>>]
        /\ events' = r.m.dispatched
  /\ last' = "onVisibilityChange"
  /\ result' = "undefined"
  /\ calls' = calls + 1
  /\ now' = now
  /\ UNCHANGED <<belowRun, lowRun, lastAuto, rate, changes, page>>

NextPause ==
  \/ PaFrames
  \/ PaIdle
  \/ \E isHidden \in BOOLEAN : PaVisibilityChange(isHidden)

SpecPause == InitPause /\ [][NextPause]_vars

\* --------------------------------------------------------- particle system
\* Lengths are kept in thousandths of a scene unit and mouse coordinates in
\* thousandths of the normalized range [-1, 1]; the rounding of Float32 and
\* double arithmetic is replaced by rounding to that grid.  A coordinate is
\* Num(n) or NaN, as a JavaScript number is.
Num(n) == [num |-> n]

NaN == [nan |-> TRUE]

\* a + b for a coordinate a and a grid number b
Plus(a, b) == IF a = NaN THEN NaN ELSE Num(a.num + b)

\* a > b and a < b for a coordinate a: false when a is NaN
Gt(a, b) == a # NaN /\ a.num > b

Lt(a, b) == a # NaN /\ a.num < b

\* Math.sqrt on the grid, for arguments below 3000 * 3000
Sqrt(s) == CHOOSE r \in 0..2999 : r * r <= s /\ (r + 1) * (r + 1) > s

\* n / d rounded toward zero
Trunc(n, d) == IF n >= 0 THEN n \div d ELSE -((-n) \div d)

\* getDeviceConfig(deviceType).mouseInfluence, in hundredths
mouseInfluence == [desktop |-> 10, tablet |-> 8, mobile |-> 5]

\* getDeviceConfig(deviceType).speed.max, in millionths
speedMax == [desktop |-> 3000, tablet |-> 2500, mobile |-> 2000]

\* values Math.random() returns, in thousandths
Randoms == {0, 500, 999}

\* window.innerWidth and window.innerHeight, in pixels
innerSize == 1000

\* event.clientX and event.clientY of the mousemove events
ClientCoords == {0, 500, 1000}

\* deltaTime arguments of update(), in milliseconds
DeltaTimes == {16, 100}

\* createParticleData for one particle: r gives the six Math.random() values
\* its position and velocity are made of
createParticleData(device, r) ==
  [x |-> Num((r[1] - 500) * 20),
   y |-> Num((r[2] - 500) * 20),
   z |-> Num((r[3] - 500) * 10),
   vx |-> Trunc((r[4] - 500) * speedMax[device], 1000000),
   vy |-> Trunc((r[5] - 500) * speedMax[device], 1000000),
   vz |-> Trunc((r[6] - 500) * speedMax[device], 1000000)]

\* new ParticleSystem(scene, deviceType) with its particle data; the arrays
\* hold the first MaxParticles particles of the device's particleCount
NewParticles(device, rs) ==
  [deviceType |-> device,
   particleCount |-> getDeviceConfig[device],
   time |-> 0,
   mousePosition |-> [x |-> 0, y |-> 0],
   positions |-> [i \in DOMAIN rs |-> createParticleData(device, rs[i])]]

\* updateMousePosition(event)
updateMousePosition(ps, clientX, clientY) ==
  [ps EXCEPT !.mousePosition =
     [x |-> (clientX * 1000 * 2) \div innerSize - 1000,
      y |-> -((clientY * 1000 * 2) \div innerSize) + 1000]]

\* boundary wrapping of one coordinate
wrap(c, limit) ==
  IF Gt(c, limit) THEN Num(-limit) ELSE IF Lt(c, -limit) THEN Num(limit) ELSE c

\* the body of update()'s loop for one particle
updateParticle(p, mouse, device) ==
  LET x1 == Plus(p.x, p.vx)
      y1 == Plus(p.y, p.vy)
      z1 == Plus(p.z, p.vz)
      mouseX == mouse.x * 10
      mouseY == mouse.y * 10
      defined == x1 # NaN /\ y1 # NaN
      dx == x1.num - mouseX
      dy == y1.num - mouseY
      near == defined /\ dx * dx + dy * dy < 3000 * 3000
      distance == Sqrt(dx * dx + dy * dy)
      force == ((3000 - distance) * mouseInfluence[device]) \div 100
      x2 == IF ~near THEN x1
            ELSE IF distance = 0 THEN NaN          \* 0 / 0
            ELSE Plus(x1, Trunc(dx * force, distance))
      y2 == IF ~near THEN y1
            ELSE IF distance = 0 THEN NaN
            ELSE Plus(y1, Trunc(dy * force, distance))
  IN [p EXCEPT !.x = wrap(x2, 10000), !.y = wrap(y2, 10000), !.z = wrap(z1, 5000)]

\* ParticleSystem.update(deltaTime)
ParticleSystem_update(ps, deltaTime) ==
  [ps EXCEPT !.time = @ + deltaTime,
             !.positions = [i \in DOMAIN @ |->
                              updateParticle(@[i], ps.mousePosition, ps.deviceType)]]

InitParticles ==
  /\ now = 0
  /\ pm = Null
  /\ am = Null
  /\ events = <<>>
  /\ last = "construct"
  /\ result = "undefined"
  /\ belowRun = 0
  /\ lowRun = 0
  /\ lastAuto = -1
  /\ rate = InitialFPS
  /\ changes = 0
  /\ calls = 0
  /\ \E device \in Devices, rs \in [1..MaxParticles -> [1..6 -> Randoms]] :
       page = NewParticles(device, rs)

\* an operation on the page object ends
PageStep(name, after, counted) ==
  /\ page' = after
  /\ last' = name
  /\ calls' = calls + counted
  /\ UNCHANGED <<now, pm, am, events, result, belowRun, lowRun, lastAuto, rate, changes>>

PsUpdate(deltaTime) ==
  /\ calls < MaxUpdates
  /\ PageStep("update", ParticleSystem_update(page, deltaTime), 1)

PsMouseMove(clientX, clientY) ==
  /\ updateMousePosition(page, clientX, clientY) # page
  /\ PageStep("mousemove", updateMousePosition(page, clientX, clientY), 0)

NextParticles ==
  \/ \E deltaTime \in DeltaTimes : PsUpdate(deltaTime)
  \/ \E clientX \in ClientCoords, clientY \in ClientCoords : PsMouseMove(clientX, clientY)

SpecParticles == InitParticles /\ [][NextParticles]_vars

\* ------------------------------------------------------- content animations
\* content sections observeContentSections finds, in document order
SectionOrder == <<"s1", "s2", "s3">>

Sections == {SectionOrder[i] : i \in DOMAIN SectionOrder}

\* repository cards fetchGitHubRepos appends to #repo-container, in order
CardOrder == <<"r1", "r2">>

Cards == {CardOrder[i] : i \in DOMAIN CardOrder}

\* the clock of the content animations advances in steps of TickMs
TickMs == 50

MaxContentTime == MaxContentTicks * TickMs

HiddenStyle == [opacity |-> "0", transform |-> "translateY(30px)"]

RevealedStyle == [opacity |-> "1", transform |-> "translateY(0)"]

HoverTransform == "translateY(-8px) rotateX(5deg) rotateY(2deg) scale(1.02)"

RestTransform == "translateY(0) rotateX(0) rotateY(0) scale(1)"

\* getStaggeredDelays(elementCount)
getStaggeredDelays(c, elementCount) == [i \in 1..elementCount |-> (i - 1) * c.staggerDelay]

\* setTimeout(callback, delay) at clock reading t; entry and reported record
\* the observer entry (from 0) and callback time of a reveal timer
setTimeout(c, kind, target, delay, entry, t) ==
  [c EXCEPT !.timers = @ \cup {[id |-> c.nextTimer, kind |-> kind, target |-> target,
                                due |-> t + delay, entry |-> entry, reported |-> t]},
            !.nextTimer = @ + 1]

\* enhanceRepositoryCard(card, index)
enhanceRepositoryCard(c, card, index, t) ==
  setTimeout([c EXCEPT !.listeners[card] = @ + 1, !.style[card] = HiddenStyle],
             "entrance", card, index * c.staggerDelay, index, t)

RECURSIVE enhanceCards(_, _, _)
\* repoCards.forEach((card, index) => this.enhanceRepositoryCard(card, index))
\* from the card at position i on
enhanceCards(c, i, t) ==
  IF i > Len(CardOrder) THEN c
  ELSE enhanceCards(enhanceRepositoryCard(c, CardOrder[i], i - 1, t), i + 1, t)

\* checkForRepos()
checkForRepos(c, t) ==
  IF c.loaded THEN enhanceCards(c, 1, t)
  ELSE setTimeout(c, "checkForRepos", "none", 100, 0, t)

\* new ContentAnimations({staggerDelay}) followed by init(): supported tells
\* whether window.IntersectionObserver exists, loaded whether the repository
\* cards are in the document already
ContentAnimations_init(staggerDelay, supported, loaded, t) ==
  LET c == [staggerDelay |-> staggerDelay,
            observer |-> supported,
            isInitialized |-> TRUE,
            disposed |-> FALSE,
            animatedElements |-> {},
            style |-> [e \in Sections \cup Cards |->
                         IF e \in Sections /\ supported THEN HiddenStyle
                         ELSE [opacity |-> "", transform |-> ""]],
            entries |-> <<>>,
            timers |-> {},
            nextTimer |-> 1,
            loaded |-> loaded,
            listeners |-> [card \in Cards |-> 0],
            hovered |-> [card \in Cards |-> FALSE]]
  IN checkForRepos(c, t)

\* revealElement(element)
revealElement(c, element) == [c EXCEPT !.style[element] = RevealedStyle]

RECURSIVE observerCallbackFrom(_, _, _, _)
\* the IntersectionObserver callback's forEach, from entry i on
observerCallbackFrom(c, entries, i, t) ==
  IF i > Len(entries) THEN c
  ELSE LET entry == entries[i]
           next == IF entry.isIntersecting /\ entry.target \notin c.animatedElements
                   THEN setTimeout(c, "reveal", entry.target,
                                   (i - 1) * c.staggerDelay, i - 1, t)
                   ELSE c
       IN observerCallbackFrom(next, entries, i + 1, t)

\* variant of the observer callback that numbers the intersecting entries only
observerCallbackCompact(c, entries, t) ==
  observerCallbackFrom([c EXCEPT !.entries = entries],
                       SelectSeq(entries, LAMBDA e : e.isIntersecting), 1, t)

\* the IntersectionObserver callback
observerCallback(c, entries, t) ==
  observerCallbackFrom([c EXCEPT !.entries = entries], entries, 1, t)

\* the callback of a timer that has come due
timeout(c, timer, t) ==
  LET rest == [c EXCEPT !.timers = @ \ {timer}]
  IN CASE timer.kind = "reveal" ->
            [revealElement(rest, timer.target) EXCEPT
               !.animatedElements = @ \cup {timer.target}]
       [] timer.kind = "entrance" ->
            [rest EXCEPT !.style[timer.target] = RevealedStyle]
       [] OTHER -> checkForRepos(rest, t)

\* fetchGitHubRepos appends the cards; the MutationObserver set up by
\* observeRepositoryContainer enhances each added node
appendCards(c, t) == enhanceCards([c EXCEPT !.loaded = TRUE], 1, t)

\* the listeners of a card run for a mouseenter / mouseleave event
mouseenter(c, card) ==
  [c EXCEPT !.hovered[card] = TRUE,
            !.style[card].transform = IF c.listeners[card] > 0 THEN HoverTransform ELSE @]

mouseleave(c, card) ==
  [c EXCEPT !.hovered[card] = FALSE,
            !.style[card].transform = IF c.listeners[card] > 0 THEN RestTransform ELSE @]

\* ContentAnimations.dispose()
ContentAnimations_dispose(c) ==
  [c EXCEPT !.observer = FALSE, !.animatedElements = {}, !.isInitialized = FALSE,
            !.disposed = TRUE]

\* the batches of entries an observer callback receives: some sections, in
\* document order, each intersecting or not
Batches ==
  UNION {{[i \in 1..Len(SelectSeq(SectionOrder, LAMBDA e : e \in S)) |->
             [target |-> SelectSeq(SectionOrder, LAMBDA e : e \in S)[i],
              isIntersecting |-> f[SelectSeq(SectionOrder, LAMBDA e : e \in S)[i]]]]
          : f \in [S -> BOOLEAN]}
         : S \in (SUBSET Sections) \ {{}}}

InitContent ==
  /\ now = 0
  /\ pm = Null
  /\ am = Null
  /\ events = <<>>
  /\ last = "init"
  /\ result = "true"
  /\ belowRun = 0
  /\ lowRun = 0
  /\ lastAuto = -1
  /\ rate = InitialFPS
  /\ changes = 0
  /\ calls = 0
  /\ \E device \in Devices, supported \in BOOLEAN, loaded \in BOOLEAN :
       page = ContentAnimations_init(NewContentAnimations(device).staggerDelay,
                                     supported, loaded, 0)

\* an operation on the page object at clock reading now ends
ContentStep(name, after, counted) ==
  /\ page' = after
  /\ last' = name
  /\ calls' = calls + counted
  /\ UNCHANGED <<now, pm, am, events, result, belowRun, lowRun, lastAuto, rate, changes>>

CaIntersect(entries) ==
  /\ page.observer
  /\ calls < MaxBatches
  /\ now + (Len(entries) - 1) * page.staggerDelay <= MaxContentTime
  /\ ContentStep("intersect", observerCallback(page, entries, now), 1)

CaTimeout ==
  \E timer \in page.timers :
    /\ timer.due = now
    /\ ContentStep("timeout", timeout(page, timer, now), 0)

\* time passes when no timer is due
CaAdvance ==
  /\ \A timer \in page.timers : timer.due > now
  /\ now + TickMs <= MaxContentTime
  /\ now' = now + TickMs
  /\ UNCHANGED <<pm, am, events, last, result, belowRun, lowRun, lastAuto, rate,
                 changes, calls, page>>

CaAppendCards ==
  /\ ~page.loaded
  /\ ContentStep("appendCards", appendCards(page, now), 0)

CaMouseEnter(card) ==
  /\ page.loaded /\ ~page.hovered[card]
  /\ \A other \in Cards : ~page.hovered[other]
  /\ ContentStep("mouseenter", mouseenter(page, card), 0)

CaMouseLeave(card) ==
  /\ page.hovered[card]
  /\ ContentStep("mouseleave", mouseleave(page, card), 0)

CaDispose ==
  /\ ~page.disposed
  /\ ContentStep("dispose", ContentAnimations_dispose(page), 0)

\* the content sections under the intersection observer
NextContent ==
  \/ \E entries \in Batches : CaIntersect(entries)
  \/ CaTimeout
  \/ CaAdvance
  \/ CaDispose

SpecContent == InitContent /\ [][NextContent]_vars

\* the repository cards under the pointer
NextCards ==
  \/ CaTimeout
  \/ CaAdvance
  \/ CaAppendCards
  \/ \E card \in Cards : CaMouseEnter(card)
  \/ \E card \in Cards : CaMouseLeave(card)
  \/ CaDispose

SpecCards == InitContent /\ [][NextCards]_vars

\* timers that are due fire and time passes
SpecContentLive == SpecContent /\ WF_vars(CaTimeout) /\ WF_vars(CaAdvance)

\* ------------------------------------------------------ navigation enhancer
\* textContent of the links under '.navbar .main-menu ul li a'
LinkTexts == {"Home", "Research"}

animationDuration == 300

\* the clock of the navigation enhancer advances in steps of NavTickMs
NavTickMs == 150

MaxNavTime == MaxNavTicks * NavTickMs

\* `hover-${element.textContent}`, `click-${element.textContent}`, 'hamburger-transform'
AnimationId(prefix, text) == [prefix |-> prefix, text |-> text]

HamburgerId == AnimationId("hamburger-transform", "")

HoverOn == "perspective(1000px) rotateX(-5deg) rotateY(5deg) translateZ(10px) scale(1.05)"

HoverOff == "perspective(1000px) rotateX(0deg) rotateY(0deg) translateZ(0px) scale(1)"

\* transforms of the three hamburger lines in the X shape; the value given to
\* the middle line, 'opacity(0)', is no transform and the style keeps its value
XFirst == "rotate(45deg) translate(6px, 6px)"

XLast == "rotate(-45deg) translate(6px, -6px)"

\* new NavigationEnhancer(): pageHandlerFirst tells whether the page's own
\* click listener (mobileMenu.classList.toggle('active')) was registered on
\* the hamburger button before the enhancer's
NewNavigationEnhancer(pageHandlerFirst) ==
  [activeAnimations |-> <<>>,
   timers |-> {},
   nextTimer |-> 1,
   transform |-> [text \in LinkTexts |-> ""],
   lines |-> <<"", "", "">>,
   menuActive |-> FALSE,
   pageHandlerFirst |-> pageHandlerFirst,
   triggered |-> <<>>]

\* this.activeAnimations.has(id)
has(n, id) == id \in DOMAIN n.activeAnimations

\* clearTimeout(timeoutId)
clearTimeout(n, timeoutId) == [n EXCEPT !.timers = {tm \in @ : tm.id # timeoutId}]

\* timeoutId = setTimeout(() => this.activeAnimations.delete(id), 300);
\* this.activeAnimations.set(id, timeoutId); triggered records the time
track(n, id, t) ==
  [n EXCEPT !.timers = @ \cup {[id |-> n.nextTimer, kind |-> "delete", key |-> id,
                                due |-> t + animationDuration]},
            !.activeAnimations = [k \in DOMAIN @ \cup {id} |->
                                    IF k = id THEN n.nextTimer ELSE @[k]],
            !.triggered = [k \in DOMAIN @ \cup {id} |-> IF k = id THEN t ELSE @[k]],
            !.nextTimer = @ + 1]

\* variant of animate3DHover that leaves the earlier timer of the id pending
animate3DHoverKeepTimer(n, text, isHover, t) ==
  track([n EXCEPT !.transform[text] = IF isHover THEN HoverOn ELSE HoverOff],
        AnimationId("hover", text), t)

\* animate3DHover(element, isHover, startTime)
animate3DHover(n, text, isHover, t) ==
  LET id == AnimationId("hover", text)
      cleared == IF has(n, id) THEN clearTimeout(n, n.activeAnimations[id]) ELSE n
  IN track([cleared EXCEPT !.transform[text] = IF isHover THEN HoverOn ELSE HoverOff],
           id, t)

\* animateClickTransition(element, startTime)
animateClickTransition(n, text, t) ==
  LET id == AnimationId("click", text)
      cleared == IF has(n, id) THEN clearTimeout(n, n.activeAnimations[id]) ELSE n
      scaled == [cleared EXCEPT
                   !.transform[text] = "scale(0.95)",
                   !.timers = @ \cup {[id |-> cleared.nextTimer, kind |-> "scale",
                                       key |-> id, due |-> t + animationDuration \div 2]},
                   !.nextTimer = @ + 1]
  IN track(scaled, id, t)

\* animateHamburgerTransformation(startTime)
animateHamburgerTransformation(n, t) ==
  LET isActive == n.menuActive
      shaped == [n EXCEPT !.lines = IF ~isActive THEN <<XFirst, @[2], XLast>>
                                    ELSE <<"none", "none", "none">>]
  IN track(shaped, HamburgerId, t)

\* the page's own click listener on the hamburger button
toggleMenu(n) == [n EXCEPT !.menuActive = ~@]

\* a click on the hamburger button: its listeners run in the order they were
\* registered
hamburgerClick(n, t) ==
  IF n.pageHandlerFirst THEN animateHamburgerTransformation(toggleMenu(n), t)
  ELSE toggleMenu(animateHamburgerTransformation(n, t))

\* the callback of a timer that has come due
navTimeout(n, timer) ==
  LET rest == [n EXCEPT !.timers = @ \ {timer}]
  IN IF timer.kind = "scale"
     THEN [rest EXCEPT !.transform[timer.key.text] = "scale(1)"]
     ELSE [rest EXCEPT !.activeAnimations = [k \in DOMAIN @ \ {timer.key} |-> @[k]]]

\* NavigationEnhancer.dispose()
NavigationEnhancer_dispose(n) ==
  [n EXCEPT !.timers = {tm \in @ : \A k \in DOMAIN n.activeAnimations :
                                     n.activeAnimations[k] # tm.id},
            !.activeAnimations = <<>>,
            !.transform = [text \in LinkTexts |-> ""]]

\* hasActiveAnimations()
hasActiveAnimations(n) == DOMAIN n.activeAnimations # {}

InitNav ==
  /\ now = 0
  /\ pm = Null
  /\ am = Null
  /\ events = <<>>
  /\ last = "construct"
  /\ result = "undefined"
  /\ belowRun = 0
  /\ lowRun = 0
  /\ lastAuto = -1
  /\ rate = InitialFPS
  /\ changes = 0
  /\ calls = 0
  /\ \E pageHandlerFirst \in BOOLEAN : page = NewNavigationEnhancer(pageHandlerFirst)

\* a pointer event on the navigation at clock reading now
Interaction(name, after) ==
  /\ calls < MaxInteractions
  /\ now + animationDuration <= MaxNavTime
  /\ ContentStep(name, after, 1)

NavHover(text, isHover) ==
  Interaction("hover", animate3DHover(page, text, isHover, now))

NavClick(text) ==
  Interaction("click", animateClickTransition(page, text, now))

NavHamburgerClick ==
  Interaction("hamburgerClick", hamburgerClick(page, now))

NavTimeout ==
  \E timer \in page.timers :
    /\ timer.due = now
    /\ ContentStep("timeout", navTimeout(page, timer), 0)

\* time passes when no timer is due
NavAdvance ==
  /\ \A timer \in page.timers : timer.due > now
  /\ now + NavTickMs <= MaxNavTime
  /\ now' = now + NavTickMs
  /\ UNCHANGED <<pm, am, events, last, result, belowRun, lowRun, lastAuto, rate,
                 changes, calls, page>>

NavDispose ==
  /\ NavigationEnhancer_dispose(page) # page
  /\ ContentStep("dispose", NavigationEnhancer_dispose(page), 0)

NextNav ==
  \/ \E text \in LinkTexts, isHover \in BOOLEAN : NavHover(text, isHover)
  \/ \E text \in LinkTexts : NavClick(text)
  \/ NavHamburgerClick
  \/ NavTimeout
  \/ NavAdvance
  \/ NavDispose

SpecNav == InitNav /\ [][NextNav]_vars

\* timers that are due fire and time passes
SpecNavLive == SpecNav /\ WF_vars(NavTimeout) /\ WF_vars(NavAdvance)

\* ----------------------------------------------------- interactive elements
\* InteractiveElements.getDeviceConfig(deviceType): rotationSpeed in
\* ten-thousandths of a radian, parallaxStrength and dampening in hundredths
heroConfig ==
  [desktop |-> [rotationSpeed |-> 50, parallaxStrength |-> 10, dampening |-> 95],
   tablet  |-> [rotationSpeed |-> 40, parallaxStrength |-> 8,  dampening |-> 92],
   mobile  |-> [rotationSpeed |-> 30, parallaxStrength |-> 5,  dampening |-> 90]]

\* normalized mouse coordinates, in thousandths: horizontal and vertical
MouseCoords == {0, 50, 1000}

MouseYCoords == {-1000, 0}

\* variant of the constructor that creates the hero object without a hero section
InteractiveElements_initAlways(device, hasHero) ==
  [deviceType |-> device,
   documentHero |-> hasHero,
   heroSection |-> hasHero,
   heroObject |-> [rotation |-> [x |-> 0, y |-> 0, z |-> 0], scale |-> 10],
   heroObjectGroup |-> [position |-> [x |-> 0, y |-> 0]],
   sceneChildren |-> 1,
   listeners |-> hasHero,
   navigationEnhancer |-> hasHero,
   time |-> 0,
   mousePosition |-> [x |-> 0, y |-> 0],
   currentRotation |-> [x |-> 0, y |-> 0, z |-> 0]]

\* new InteractiveElements(scene, camera, deviceType): hasHero tells whether
\* document.querySelector('.hero') finds an element, kept as documentHero.  Positions are in
\* hundred-thousandths of a scene unit (mouse thousandths x strength
\* hundredths); products are rounded to that grid as the program's are to
\* the precision of its numbers.
InteractiveElements_init(device, hasHero) ==
  [deviceType |-> device,
   documentHero |-> hasHero,
   heroSection |-> hasHero,
   heroObject |-> IF hasHero
                  THEN [rotation |-> [x |-> 0, y |-> 0, z |-> 0], scale |-> 10]
                  ELSE Null,
   heroObjectGroup |-> IF hasHero THEN [position |-> [x |-> 0, y |-> 0]] ELSE Null,
   sceneChildren |-> IF hasHero THEN 1 ELSE 0,
   listeners |-> hasHero,
   navigationEnhancer |-> hasHero,
   time |-> 0,
   mousePosition |-> [x |-> 0, y |-> 0],
   currentRotation |-> [x |-> 0, y |-> 0, z |-> 0]]

\* one axis of the parallax step: currentPos += (target - currentPos) * (1 - dampening)
parallax(pos, mouse, config) ==
  pos + Trunc((mouse * config.parallaxStrength - pos) * (100 - config.dampening), 100)

\* variant of update whose rotation step is proportional to deltaTime
InteractiveElements_updateByDelta(ie, deltaTime) ==
  LET speed == (heroConfig[ie.deviceType].rotationSpeed * deltaTime) \div 16
      rot == [x |-> ie.currentRotation.x + speed,
              y |-> ie.currentRotation.y + (speed * 7) \div 10,
              z |-> ie.currentRotation.z + (speed * 3) \div 10]
  IN IF ie.heroObject = Null \/ ie.heroObjectGroup = Null THEN ie
     ELSE [ie EXCEPT !.time = @ + deltaTime, !.currentRotation = rot,
                     !.heroObject.rotation = rot]

\* variant of update that applies the parallax step without dampening
InteractiveElements_updateJump(ie, deltaTime) ==
  LET config == heroConfig[ie.deviceType]
      rot == [x |-> ie.currentRotation.x + config.rotationSpeed,
              y |-> ie.currentRotation.y + (config.rotationSpeed * 7) \div 10,
              z |-> ie.currentRotation.z + (config.rotationSpeed * 3) \div 10]
  IN IF ie.heroObject = Null \/ ie.heroObjectGroup = Null THEN ie
     ELSE [ie EXCEPT !.time = @ + deltaTime, !.currentRotation = rot,
                     !.heroObject.rotation = rot,
                     !.heroObjectGroup.position =
                        IF ie.mousePosition.x # 0 \/ ie.mousePosition.y # 0
                        THEN [x |-> ie.mousePosition.x * config.parallaxStrength,
                              y |-> ie.mousePosition.y * config.parallaxStrength]
                        ELSE @]

\* InteractiveElements.update(deltaTime)
InteractiveElements_update(ie, deltaTime) ==
  LET config == heroConfig[ie.deviceType]
      rot == [x |-> ie.currentRotation.x + config.rotationSpeed,
              y |-> ie.currentRotation.y + (config.rotationSpeed * 7) \div 10,
              z |-> ie.currentRotation.z + (config.rotationSpeed * 3) \div 10]
  IN IF ie.heroObject = Null \/ ie.heroObjectGroup = Null THEN ie
     ELSE [ie EXCEPT !.time = @ + deltaTime, !.currentRotation = rot,
                     !.heroObject.rotation = rot,
                     !.heroObjectGroup.position =
                        IF ie.mousePosition.x # 0 \/ ie.mousePosition.y # 0
                        THEN [x |-> parallax(@.x, ie.mousePosition.x, config),
                              y |-> parallax(@.y, ie.mousePosition.y, config)]
                        ELSE @]

\* handleMouseMove(event): x, y are the coordinates normalized to the hero
\* section's rectangle, inHero tells whether the pointer is inside it
handleMouseMove(ie, inHero, x, y) ==
  IF ~ie.listeners \/ ~ie.heroSection \/ ~inHero THEN ie
  ELSE [ie EXCEPT !.mousePosition = [x |-> x, y |-> y]]

\* handleHeroEnter()
handleHeroEnter(ie) ==
  IF ie.listeners /\ ie.heroObject # Null THEN [ie EXCEPT !.heroObject.scale = 11] ELSE ie

\* handleHeroLeave()
handleHeroLeave(ie) ==
  IF ie.listeners /\ ie.heroObject # Null
  THEN [ie EXCEPT !.heroObject.scale = 10, !.mousePosition = [x |-> 0, y |-> 0]]
  ELSE ie

\* simulateMouseInteraction(x, y)
simulateMouseInteraction(ie, x, y) == [ie EXCEPT !.mousePosition = [x |-> x, y |-> y]]

\* InteractiveElements.dispose()
InteractiveElements_dispose(ie) ==
  [ie EXCEPT !.navigationEnhancer = FALSE,
             !.listeners = FALSE,
             !.sceneChildren = IF ie.heroObjectGroup # Null THEN @ - 1 ELSE @,
             !.heroObject = Null,
             !.heroObjectGroup = Null,
             !.heroSection = FALSE]

InitHero ==
  /\ now = 0
  /\ pm = Null
  /\ am = Null
  /\ events = <<>>
  /\ last = "construct"
  /\ result = "undefined"
  /\ belowRun = 0
  /\ lowRun = 0
  /\ lastAuto = -1
  /\ rate = InitialFPS
  /\ changes = 0
  /\ calls = 0
  /\ \E device \in Devices, hasHero \in BOOLEAN :
       page = InteractiveElements_init(device, hasHero)

IeUpdate(deltaTime) ==
  /\ calls < MaxHeroUpdates
  /\ PageStep("update", InteractiveElements_update(page, deltaTime), 1)

IeMouseMove(inHero, x, y) ==
  /\ handleMouseMove(page, inHero, x, y) # page
  /\ PageStep("mousemove", handleMouseMove(page, inHero, x, y), 0)

IeHeroEnter ==
  /\ handleHeroEnter(page) # page
  /\ PageStep("mouseenter", handleHeroEnter(page), 0)

IeHeroLeave ==
  /\ handleHeroLeave(page) # page
  /\ PageStep("mouseleave", handleHeroLeave(page), 0)

IeSimulate(x, y) ==
  /\ simulateMouseInteraction(page, x, y) # page
  /\ PageStep("simulateMouseInteraction", simulateMouseInteraction(page, x, y), 0)

IeDispose ==
  /\ last # "dispose"
  /\ PageStep("dispose", InteractiveElements_dispose(page), 0)

NextHero ==
  \/ \E deltaTime \in DeltaTimes : IeUpdate(deltaTime)
  \/ \E inHero \in BOOLEAN, x \in MouseCoords, y \in MouseYCoords : IeMouseMove(inHero, x, y)
  \/ IeHeroEnter
  \/ IeHeroLeave
  \/ \E x \in MouseCoords, y \in MouseYCoords : IeSimulate(x, y)
  \/ IeDispose

SpecHero == InitHero /\ [][NextHero]_vars

\* ------------------------------------------------------------------ claims
Rank(q) ==
  CASE q = "high" -> 3 [] q = "medium" -> 2 [] q = "low" -> 1 [] OTHER -> 0

NextLower(q) == IF q = "high" THEN "medium" ELSE "low"

DeviceTier(device) ==
  CASE device = "desktop" -> "high" [] device = "tablet" -> "medium" [] OTHER -> "low"

CheckOps == {"updateMetrics", "checkPerformanceThreshold"}

\* the step is an operation that called checkPerformanceThreshold at reading now
CheckedStep ==
  \/ last' = "checkPerformanceThreshold"
  \/ last' = "updateMetrics" /\ now - pm.lastTime >= 1000

\* the step is a performance check that changed the tier
AutoStep == last' \in CheckOps /\ pm'.currentQuality # pm.currentQuality

\* the mean of the last 5 samples of history h is below 80% of the target
MeanBelow80(h, device) ==
  /\ Len(h) >= 5
  /\ 100 * (h[Len(h)] + h[Len(h) - 1] + h[Len(h) - 2] + h[Len(h) - 3] + h[Len(h) - 4])
       < 5 * 80 * targetFPS[device]

\* C1: a performance check lowers the tier only when it is the third
\* consecutive check (among the checks made at tier high or medium since the
\* last automatic downgrade) that found the mean of the last 5 samples below
\* 80% of the target; a check at tier high or medium that finds the mean at
\* or above the threshold leaves the warning count at zero; a check made with
\* fewer than 5 samples changes neither the count nor the tier.
Thm_C1 ==
  [][/\ (last' \in CheckOps /\ Rank(pm'.currentQuality) < Rank(pm.currentQuality)) =>
          /\ pm.currentQuality \in {"high", "medium"}
          /\ MeanBelow80(pm'.fpsHistory, pm.deviceType)
          /\ belowRun >= 2
          /\ pm.performanceWarningCount = 2
     /\ (/\ CheckedStep
         /\ pm.currentQuality \in {"high", "medium"}
         /\ Len(pm'.fpsHistory) >= 5
         /\ ~MeanBelow80(pm'.fpsHistory, pm.deviceType)) =>
          /\ pm'.performanceWarningCount = 0
          /\ pm'.currentQuality = pm.currentQuality
     /\ (CheckedStep /\ Len(pm'.fpsHistory) < 5) =>
          /\ pm'.performanceWarningCount = pm.performanceWarningCount
          /\ pm'.currentQuality = pm.currentQuality
    ]_vars

\* a render-loop check has just lowered the tier, as the third below-threshold
\* check in a row
Witness_C1 ==
  /\ last = "updateMetrics"
  /\ lastAuto = now - 1000
  /\ pm.deviceType = "desktop"
  /\ pm.currentQuality = "medium"
  /\ Len(pm.fpsHistory) = 7
  /\ calls = 0

\* C2: a check made less than 2000 ms after the last automatic downgrade
\* changes neither the tier nor the warning count, and two automatic
\* downgrades are at least 2000 ms apart.
Thm_C2 ==
  [][/\ (CheckedStep /\ lastAuto >= 0 /\ now - lastAuto < 2000) =>
          /\ pm'.currentQuality = pm.currentQuality
          /\ pm'.performanceWarningCount = pm.performanceWarningCount
     /\ (AutoStep /\ lastAuto >= 0) => now - lastAuto >= 2000
    ]_vars

\* a check was made 1000 ms after a downgrade, with the mean below threshold,
\* and counted nothing
Witness_C2 ==
  /\ last = "updateMetrics"
  /\ lastAuto >= 0
  /\ (now - 1000) - lastAuto = 1000
  /\ pm.currentQuality = "medium"
  /\ MeanBelow80(pm.fpsHistory, pm.deviceType)
  /\ pm.performanceWarningCount = 0

\* C3 as claimed: a performance check leaves the tier as it is or moves it
\* exactly one step down, high to medium or medium to low.
CE_C3 ==
  [][last' \in CheckOps =>
       \/ pm'.currentQuality = pm.currentQuality
       \/ /\ pm.currentQuality \in {"high", "medium"}
          /\ pm'.currentQuality = NextLower(pm.currentQuality)
    ]_vars

Thm_C5 ==
  /\ (last = "construct" /\ (~pm.webGLSupported \/ pm.reducedMotionPreferred)) =>
       /\ pm.currentQuality = "disabled"
       /\ ~shouldEnableAnimations(pm)
       /\ getQualitySettings(pm) = [particles |-> 0, shadows |-> FALSE, antialias |-> FALSE]
  /\ (last = "onReducedMotionChange" /\ pm.reducedMotionPreferred) =>
       /\ pm.currentQuality = "disabled"
       /\ ~shouldEnableAnimations(pm)

\* the notification arrived in the middle of a session, during the cool-down
\* that follows a downgrade
Witness_C5 ==
  /\ last = "onReducedMotionChange"
  /\ pm.reducedMotionPreferred
  /\ pm.webGLSupported
  /\ calls = 1
  /\ lastAuto = now - 1000
  /\ pm.currentQuality = "disabled"

\* C6: once the tier is disabled it stays disabled under every operation
\* except a preference-change notification that clears reduced motion.
CE_C6 ==
  [][(/\ pm.currentQuality = "disabled"
      /\ ~(last' = "onReducedMotionChange" /\ ~pm'.reducedMotionPreferred)) =>
       pm'.currentQuality = "disabled"
    ]_vars

\* C7 as claimed: a notification that clears reduced motion while the tier is
\* disabled makes the tier the device's tier.
CE_C7 ==
  [][(/\ last' = "onReducedMotionChange"
      /\ ~pm'.reducedMotionPreferred
      /\ pm.currentQuality = "disabled") =>
       pm'.currentQuality = DeviceTier(pm.deviceType)
    ]_vars

\* C7 as amended: with WebGL supported the tier becomes the device's tier
\* (desktop high, tablet medium, mobile low); without WebGL it stays disabled.
Thm_C7 ==
  [][(/\ last' = "onReducedMotionChange"
      /\ ~pm'.reducedMotionPreferred
      /\ pm.currentQuality = "disabled") =>
       pm'.currentQuality =
         IF pm.webGLSupported THEN DeviceTier(pm.deviceType) ELSE "disabled"
    ]_vars

\* the preference was cleared on a tablet whose monitor was disabled
Witness_C7 ==
  /\ last = "onReducedMotionChange"
  /\ calls = 1
  /\ ~pm.reducedMotionPreferred
  /\ pm.webGLSupported
  /\ pm.deviceType = "tablet"
  /\ pm.currentQuality = "medium"
  /\ events = <<[type |-> "animationQualityChange", quality |-> "medium",
                 settings |-> qualityLevels.medium]>>

\* C8 as claimed: at tier low the third consecutive check below the threshold
\* moves the tier to disabled.
CE_C8 == lowRun >= 3 => pm.currentQuality = "disabled"

\* C8 as amended: the rule drives high -> medium -> low and stops there: a
\* check at medium that lowers the tier makes it low, and a check at low
\* changes neither the tier nor the warning count.
Thm_C8 ==
  [][/\ (AutoStep /\ pm.currentQuality = "medium") => pm'.currentQuality = "low"
     /\ (last' \in CheckOps /\ pm.currentQuality = "low") =>
          /\ pm'.currentQuality = "low"
          /\ pm'.performanceWarningCount = pm.performanceWarningCount
    ]_vars

\* a desktop went high -> medium -> low by the rule
Witness_C8 ==
  /\ pm.deviceType = "desktop"
  /\ pm.currentQuality = "low"
  /\ last = "updateMetrics"
  /\ lastAuto = now - 1000
  /\ Len(pm.fpsHistory) = 11

\* C9 as claimed: whenever the manager has a particle system, the number of
\* particles it animates is the count configured for the monitor's tier.
CE_C9 ==
  (am # Null /\ pm # Null /\ am.particleSystem # Null /\ pm.currentQuality \in Tiers) =>
    getParticleCount(am.particleSystem) = getQualitySettings(pm).particles

\* C10 as claimed: while the monitor of an initialized manager has the
\* reduced-motion preference on, the render loop is not running.
CE_C10 ==
  (am # Null /\ pm # Null /\ am.isInitialized /\ pm.reducedMotionPreferred) =>
    ~am.isRunning

\* C11 as claimed: in every reachable state the tier is one of high, medium,
\* low, disabled (a setQuality call with any other value changes nothing).
CE_C11 == pm.currentQuality \in Tiers

\* C12 as claimed: getFallbackConfig() returns null exactly when
\* shouldEnableAnimations() returns true.
CE_C12 == (getFallbackConfig(pm) = Null) <=> shouldEnableAnimations(pm)

\* C13: getFallbackConfig() is the css / webgl_unsupported configuration
\* whenever WebGL is unsupported, also with reduced motion preferred; the
\* static / reduced_motion_preferred configuration when WebGL is supported
\* and reduced motion is preferred; and null when WebGL is supported and
\* reduced motion is not preferred.
Thm_C13 ==
  /\ ~pm.webGLSupported =>
       /\ getFallbackConfig(pm).type = "css"
       /\ getFallbackConfig(pm).reason = "webgl_unsupported"
       /\ getFallbackConfig(pm).enableBasicAnimations
  /\ (pm.webGLSupported /\ pm.reducedMotionPreferred) =>
       /\ getFallbackConfig(pm).type = "static"
       /\ getFallbackConfig(pm).reason = "reduced_motion_preferred"
       /\ ~getFallbackConfig(pm).enableBasicAnimations
  /\ (pm.webGLSupported /\ ~pm.reducedMotionPreferred) => getFallbackConfig(pm) = Null

\* a monitor without WebGL learns in mid-session that reduced motion is
\* preferred, and still reports the css fallback
Witness_C13 ==
  /\ last = "onReducedMotionChange"
  /\ calls = 1
  /\ ~pm.webGLSupported
  /\ pm.reducedMotionPreferred
  /\ now > 0
  /\ getFallbackConfig(pm).reason = "webgl_unsupported"

\* C14: initAnimations returns the manager or null and throws nothing; it
\* returns the manager only when the capability monitor enables animations,
\* the manager was constructed and init() returned true, and then the loop
\* has been started; when no manager was constructed or init() failed it
\* returns null and the loop has not been started.
Thm_C14 ==
  last = "initAnimations" =>
    /\ result \in {"manager", "null"}
    /\ result = "manager" =>
         /\ am # Null /\ pm # Null
         /\ shouldEnableAnimations(pm)
         /\ am.isInitialized
         /\ am.isRunning /\ am.requested
    /\ am = Null => result = "null"
    /\ (am # Null /\ ~am.isInitialized) =>
         /\ result = "null"
         /\ ~am.isRunning /\ ~am.requested /\ am.orphaned = 0

\* initAnimations returned null because the renderer could not be created:
\* a manager was constructed, init() failed and the loop was not started
Witness_C14 ==
  /\ last = "initAnimations"
  /\ result = "null"
  /\ am # Null
  /\ am.scene /\ ~am.renderer
  /\ ~am.isInitialized
  /\ ~am.isRunning

\* C15: after every operation exactly one frame callback is outstanding when
\* isRunning is true and none when it is false.
Thm_C15 ==
  am # Null =>
    /\ am.orphaned = 0
    /\ am.requested <=> am.isRunning

\* start() was called while the loop was running, after the loop had been
\* stopped and started again
Witness_C15 ==
  /\ am # Null
  /\ last = "start"
  /\ result = "true"
  /\ calls = 1
  /\ now > 0
  /\ am.isRunning /\ am.requested

\* the state dispose() leaves
Disposed ==
  /\ pm = Null
  /\ ~am.isRunning /\ ~am.isInitialized
  /\ ~am.scene /\ ~am.camera /\ ~am.renderer
  /\ am.particleSystem = Null
  /\ am.interactiveElements = Null
  /\ am.contentAnimations = Null
  /\ ~am.resizeListener
  /\ ~am.requested /\ am.orphaned = 0

\* C16: dispose() leaves isRunning and isInitialized false, scene, camera and
\* renderer null, the four components null, the resize listener removed and
\* no frame callback outstanding; every later operation or event other than
\* init() leaves all of that as it is.
Thm_C16 ==
  [][/\ last' = "dispose" => Disposed'
     /\ (am # Null /\ Disposed /\ last' # "init") => Disposed'
    ]_vars

\* after dispose() a visibility event reached the manager's listeners, which
\* are still registered on window
Witness_C16 ==
  /\ am # Null
  /\ last = "animationVisibilityChange"
  /\ calls = 1
  /\ am.listeners > 0
  /\ Disposed

\* C17 as claimed: whenever init() returns false, isInitialized is false
\* afterwards.
CE_C17 == (am # Null /\ last = "init" /\ result = "false") => ~am.isInitialized

Components == {"particleSystem", "interactiveElements", "contentAnimations"}

\* init() called now on the manager as it is, in a browser that enables
\* animations, with constructor outcomes ok; then start() and a burst of frames
InitThenRun(ok) ==
  LET m == NewPerformanceMonitor(am.deviceType, TRUE, FALSE, now)
      initialized == init(am, m, ok)
      started == start(initialized, m, now)
      framed == animateTimes(started.a, started.m, now, rate)
  IN [initialized |-> initialized, started |-> started.a, framed |-> framed.a]

CE_C19 ==
  [][last' = "reduceQuality" =>
       Rank(pm'.currentQuality) <= Rank(pm.currentQuality)
    ]_vars

\* the operations C20 names
TierOps == {"reduceQuality", "setQuality", "onReducedMotionChange"}

\* the settings listed for a tier name: the fixed record of 'disabled',
\* otherwise what the quality table holds under that name
SettingsOf(q) ==
  IF q = "disabled" THEN [particles |-> 0, shadows |-> FALSE, antialias |-> FALSE]
  ELSE QualityLevelOf(q)

\* C20: every change of the tier made by reduceQuality, setQuality or a
\* preference-change notification has dispatched, when the operation returns,
\* exactly one animationQualityChange event whose detail carries the new tier
\* and the settings listed for it; a reduceQuality call that leaves the tier
\* unchanged dispatches no event.
Thm_C20 ==
  [][/\ (last' \in TierOps /\ pm'.currentQuality # pm.currentQuality) =>
          events' = <<[type |-> "animationQualityChange",
                       quality |-> pm'.currentQuality,
                       settings |-> SettingsOf(pm'.currentQuality)]>>
     /\ (/\ last' = "reduceQuality"
         /\ changes' = changes      \* a call, not a change of the frame rate
         /\ pm'.currentQuality = pm.currentQuality) =>
          events' = <<>>
    ]_vars

\* setQuality has just changed the tier to medium and dispatched one event
\* carrying medium and its settings
Witness_C20 ==
  /\ last = "setQuality"
  /\ calls = 1
  /\ pm.currentQuality = "medium"
  /\ pm.deviceType = "desktop"
  /\ events = <<[type |-> "animationQualityChange",
                 quality |-> "medium",
                 settings |-> qualityLevels.medium]>>

\* every coordinate of every particle is a number inside the viewport box
InBounds(ps) ==
  \A i \in DOMAIN ps.positions :
    LET p == ps.positions[i]
    IN /\ p.x # NaN /\ p.x.num >= -10000 /\ p.x.num <= 10000
       /\ p.y # NaN /\ p.y.num >= -10000 /\ p.y.num <= 10000
       /\ p.z # NaN /\ p.z.num >= -5000 /\ p.z.num <= 5000

\* C21 as claimed: after construction and after every update(), for any
\* device, deltaTime and mouse position, every particle has x and y in
\* [-10, 10] and z in [-5, 5], each a defined number.
CE_C21 == InBounds(page)

\* section s is an intersecting entry of the batch the observer has just reported
ReportedIntersecting(s) ==
  /\ last = "intersect"
  /\ \E i \in DOMAIN page.entries :
       page.entries[i].target = s /\ page.entries[i].isIntersecting

\* C22: when the intersection observer reports a batch, each entry that is
\* intersecting and not yet animated gets a timer due (its index) x
\* staggerDelay ms after the callback, the delays being those of
\* getStaggeredDelays; when the timer fires the element is revealed (opacity
\* 1, translateY(0)) and marked animated; and every element reported as
\* intersecting is eventually marked animated.
Thm_C22 ==
  /\ [][/\ (last' = "intersect" /\ calls' = calls + 1) =>
             \A i \in DOMAIN page'.entries :
               (/\ page'.entries[i].isIntersecting
                /\ page'.entries[i].target \notin page.animatedElements) =>
                 \E timer \in page'.timers \ page.timers :
                   /\ timer.kind = "reveal"
                   /\ timer.target = page'.entries[i].target
                   /\ timer.due =
                        now + getStaggeredDelays(page, Len(page'.entries))[i]
        /\ \A timer \in page.timers \ page'.timers :
             timer.kind = "reveal" =>
               /\ now = timer.reported + timer.entry * page.staggerDelay
               /\ timer.target \in page'.animatedElements
               /\ page'.style[timer.target] = RevealedStyle
       ]_vars
  /\ \A s \in Sections : ReportedIntersecting(s) ~> (s \in page.animatedElements)

\* the third entry of a batch has been revealed and marked animated two
\* stagger delays after the callback
Witness_C22 ==
  /\ last = "timeout"
  /\ Len(page.entries) = 3
  /\ now = 2 * page.staggerDelay
  /\ "s3" \in page.animatedElements
  /\ page.style["s3"] = RevealedStyle
  /\ ~page.disposed

\* C25 as claimed: from a mouseenter on an enhanced repository card until the
\* next mouseleave the card's transform is the 3D hover transform.
CE_C25 ==
  [][\A card \in Cards :
       (/\ page.listeners[card] > 0
        /\ page.hovered[card] /\ page'.hovered[card]
        /\ page.style[card].transform = HoverTransform) =>
         page'.style[card].transform = HoverTransform
    ]_vars

\* the animation ids of the link interactions
LinkIds == {AnimationId(prefix, text) : prefix \in {"hover", "click"}, text \in LinkTexts}

InXShape(n) == n.lines[1] = XFirst /\ n.lines[3] = XLast

Untransformed(n) == \A i \in 1..3 : n.lines[i] \in {"", "none"}

\* C24 as claimed: after any sequence of clicks on the hamburger button the
\* lines are in the X shape exactly when the mobile menu is open and
\* untransformed exactly when it is closed.
CE_C24 ==
  /\ page.menuActive <=> InXShape(page)
  /\ ~page.menuActive <=> Untransformed(page)

\* C26: each update() of an instance that has a hero object adds the device's
\* rotationSpeed to the x rotation, 0.7 of it to y and 0.3 of it to z,
\* whatever deltaTime is, so every axis strictly increases; and no step of
\* any kind (update, mouse move, hero enter or leave, simulated mouse)
\* decreases the rotation on any axis while the hero object exists.
Thm_C26 ==
  [][(page.heroObject # Null /\ page'.heroObject # Null) =>
       LET before == page.heroObject.rotation
           after == page'.heroObject.rotation
           speed == heroConfig[page.deviceType].rotationSpeed
       IN /\ after.x >= before.x /\ after.y >= before.y /\ after.z >= before.z
          /\ calls' = calls + 1 =>
               /\ after.x = before.x + speed
               /\ after.y = before.y + (speed * 7) \div 10
               /\ after.z = before.z + (speed * 3) \div 10
               /\ after.x > before.x /\ after.y > before.y /\ after.z > before.z]_vars

\* two updates with different deltaTime values and a mouse position between them
Witness_C26 ==
  /\ page # Null
  /\ last = "update"
  /\ page.heroObject # Null
  /\ page.time = 116
  /\ page.mousePosition.x # 0
  /\ page.heroObject.rotation.x = 2 * heroConfig[page.deviceType].rotationSpeed

\* the parallax target of one axis: mouse x parallaxStrength
parallaxTarget(ie, axis) == ie.mousePosition[axis] * heroConfig[ie.deviceType].parallaxStrength

Abs(n) == IF n < 0 THEN -n ELSE n

\* C27 as stated: update() with the mouse at (0,0) leaves the group's position
\* unchanged, and with any non-zero mouse position a single update() changes
\* the position, by the fraction (1 - dampening) of the remaining distance
\* to mouse x parallaxStrength.
CE_C27 ==
  [][(calls' = calls + 1 /\ page.heroObjectGroup # Null) =>
       LET before == page.heroObjectGroup.position
           after == page'.heroObjectGroup.position
       IN IF page.mousePosition.x = 0 /\ page.mousePosition.y = 0
          THEN after = before
          ELSE /\ after # before
               /\ \A axis \in {"x", "y"} :
                    Abs(100 * (after[axis] - before[axis])
                        - (parallaxTarget(page, axis) - before[axis])
                          * (100 - heroConfig[page.deviceType].dampening)) < 100]_vars

\* C27, amended: update() with the mouse at (0,0) leaves the group's position
\* unchanged; with a non-zero mouse position it moves each coordinate by the
\* fraction (1 - dampening) of its remaining distance to
\* mouse x parallaxStrength (to the precision of the numbers), never past the
\* target, and the position changes whenever that step is at least one unit
\* of precision on some axis; at the target it stays where it is.
Thm_C27 ==
  [][(calls' = calls + 1 /\ page.heroObjectGroup # Null) =>
       LET before == page.heroObjectGroup.position
           after == page'.heroObjectGroup.position
           fraction == 100 - heroConfig[page.deviceType].dampening
       IN IF page.mousePosition.x = 0 /\ page.mousePosition.y = 0
          THEN after = before
          ELSE /\ \A axis \in {"x", "y"} :
                    LET remaining == parallaxTarget(page, axis) - before[axis]
                    IN /\ Abs(100 * (after[axis] - before[axis]) - remaining * fraction) < 100
                       /\ Abs(parallaxTarget(page, axis) - after[axis]) <= Abs(remaining)
                       /\ remaining = 0 => after[axis] = before[axis]
               /\ (\E axis \in {"x", "y"} :
                     Abs(parallaxTarget(page, axis) - before[axis]) * fraction >= 100)
                  => after # before]_vars

\* after two updates under a non-zero mouse position the group is on its way
\* to the target, on both axes
Witness_C27 ==
  /\ page # Null
  /\ last = "update"
  /\ calls = 2
  /\ page.heroObjectGroup # Null
  /\ page.mousePosition.x # 0
  /\ page.mousePosition.y # 0
  /\ page.heroObjectGroup.position.x \notin {0, parallaxTarget(page, "x")}
  /\ page.heroObjectGroup.position.y \notin {0, parallaxTarget(page, "y")}

\* C28: on a page without a hero section the constructed instance has no hero
\* object and no group, has added nothing to the scene, has no listeners and
\* no navigation enhancer; update() changes nothing of it (not even its
\* time), and dispose() leaves it with everything released and the scene as
\* it was.
Thm_C28 ==
  /\ [](~page.documentHero =>
          /\ page.heroObject = Null
          /\ page.heroObjectGroup = Null
          /\ page.sceneChildren = 0
          /\ ~page.listeners
          /\ ~page.navigationEnhancer
          /\ page.time = 0
          /\ page.currentRotation = [x |-> 0, y |-> 0, z |-> 0])
  /\ [][~page.documentHero =>
          /\ calls' = calls + 1 => page' = page
          /\ last' = "dispose" => page' = page]_vars

\* update() and dispose() have both been called on an instance of a page
\* without a hero section
Witness_C28 ==
  /\ page # Null
  /\ ~page.documentHero
  /\ calls = 2
  /\ last = "dispose"

\* C29: in every state of the page lifecycle a running manager is initialized
\* and holds a scene, a camera and a renderer, and no frame callback ends
\* with an exception from render(); start() on a manager that is not
\* initialized returns false and leaves the manager as it was, stopped.
Thm_C29 ==
  /\ [](am # Null =>
          /\ am.isRunning => (am.isInitialized /\ am.scene /\ am.camera /\ am.renderer)
          /\ last = "animate" => result # "throws")
  /\ [][(am # Null /\ last' = "start" /\ ~am.isInitialized) =>
          (result' = "false" /\ am' = am /\ ~am'.isRunning)]_vars

\* init() has failed on a manager that an earlier init() initialized and
\* start() set running
Witness_C29 ==
  /\ am # Null
  /\ last = "init"
  /\ result = "false"
  /\ am.isRunning

\* C30: a 'visibilitychange' of the document with the page hidden leaves the
\* manager stopped with no frame callback outstanding; one with the page
\* visible leaves it running exactly when it is initialized; and a
\* notification that repeats the one before it changes neither the manager
\* nor the monitor.
Thm_C30 ==
  [][(am # Null /\ last' = "onVisibilityChange") =>
       /\ ~events'[1].visible =>
            (~am'.isRunning /\ ~am'.animationId /\ ~am'.requested /\ am'.orphaned = 0)
       /\ events'[1].visible => (am'.isRunning <=> am.isInitialized)
       /\ (last = "onVisibilityChange" /\ events[1].visible = events'[1].visible) =>
            (am' = am /\ pm' = pm)]_vars

\* the page is hidden and the loop of an initialized manager is paused
Witness_C30 ==
  /\ am # Null
  /\ last = "onVisibilityChange"
  /\ ~events[1].visible
  /\ am.isInitialized
  /\ ~am.isRunning
  /\ pm.frameCount > 0

\* C31 as claimed: a setQuality call or a preference-change notification
\* that changes the tier leaves the count of consecutive below-threshold
\* checks at zero, so that an automatic downgrade needs three further ones.
CE_C31 ==
  [][(last' \in {"setQuality", "onReducedMotionChange"}
      /\ pm'.currentQuality # pm.currentQuality) =>
       pm'.performanceWarningCount = 0]_vars

\* C34 as claimed: the deltaTime a frame callback passes to the components is
\* the time since the previous frame; for a frame that follows the frames of
\* the sample interval before it, that is at most one sample interval.
CE_C34 ==
  [][(last = "animate" /\ last' = "animate" /\ am.isRunning /\ am'.isRunning) =>
       animateDeltaTime(am, pm, now) <= SampleIntervalMs]_vars

\* C32 as claimed: when the browser delivers frames at 80% of the device's
\* target rate or more whenever the loop runs, no step lowers the tier,
\* however often and however long the page is hidden.
CE_C32 ==
  [][rate * 10 >= targetFPS[pm.deviceType] * performanceThresholdTenths =>
       pm'.currentQuality = pm.currentQuality]_vars

\* C33 as claimed: at most one canvas created by the manager is attached to
\* the document at any time, and none after dispose().
CE_C33 ==
  /\ page.attached <= 1
  /\ last = "dispose" => page.attached = 0

\* C35 as claimed: every repository card in the document has been enhanced
\* exactly once (one pair of hover listeners), whether the polling or the
\* MutationObserver found it, and no card is enhanced before it is there.
CE_C35 ==
  \A card \in Cards : page.listeners[card] = IF page.loaded THEN 1 ELSE 0

\* C36 as claimed: once the instance is disposed, no section that init() hid
\* for the reveal animation is still hidden.
CE_C36 ==
  page.disposed => \A section \in Sections : page.style[section] # HiddenStyle

TypeOK ==
  /\ now \in 0..MaxLoopTime
  /\ result \in {"undefined", "true", "false", "null", "manager"}
  /\ pm # Null => pm.currentQuality \in Tiers \cup ObjectPrototypeKeys
  /\ am # Null => am.isRunning \in BOOLEAN
====
